---- MODULE Spec2Model ----
(***************************************************************************)
(* A model of the IKP core (src/core/ikp_core.py): string interpolation,   *)
(* the AST-checked expression evaluator safe_eval, and the action          *)
(* interpreter execute_action driving the host callbacks.                  *)
(*                                                                         *)
(* Python strings are sequences of one-character strings, so that the      *)
(* regular expressions, str.strip, int()/float() parsing and the           *)
(* expression parser work on the characters as the code does.              *)
(***************************************************************************)
EXTENDS Integers, Sequences, FiniteSets, TLC

(***************************************************************************)
(* Characters and text helpers                                             *)
(***************************************************************************)
Digits == {"0", "1", "2", "3", "4", "5", "6", "7", "8", "9"}

Lower == {"a", "b", "c", "d", "e", "f", "g", "h", "i", "j", "k", "l", "m",
          "n", "o", "p", "q", "r", "s", "t", "u", "v", "w", "x", "y", "z"}

Upper == {"A", "B", "C", "D", "E", "F", "G", "H", "I", "J", "K", "L", "M",
          "N", "O", "P", "Q", "R", "S", "T", "U", "V", "W", "X", "Y", "Z"}

\* the character class [a-zA-Z0-9_] of _VAR_PATTERN
IdChars == Lower \cup Upper \cup Digits \cup {"_"}

\* the characters str.strip() and the regex class \s remove
Spaces == {" ", "\t", "\n", "\r"}

LowerSeq == <<"a", "b", "c", "d", "e", "f", "g", "h", "i", "j", "k", "l", "m",
              "n", "o", "p", "q", "r", "s", "t", "u", "v", "w", "x", "y", "z">>

UpperSeq == <<"A", "B", "C", "D", "E", "F", "G", "H", "I", "J", "K", "L", "M",
              "N", "O", "P", "Q", "R", "S", "T", "U", "V", "W", "X", "Y", "Z">>

DigitSeq == <<"0", "1", "2", "3", "4", "5", "6", "7", "8", "9">>

\* str.lower() on one character
LowerChar(c) ==
    IF c \in Upper
    THEN LowerSeq[CHOOSE i \in 1..26 : UpperSeq[i] = c]
    ELSE c

\* str.lower()
LowerText(s) == [i \in 1..Len(s) |-> LowerChar(s[i])]

DigitVal(c) == (CHOOSE i \in 1..10 : DigitSeq[i] = c) - 1

\* s[i..j] (1-based, inclusive), empty when j < i
Slice(s, i, j) == IF j < i THEN <<>> ELSE SubSeq(s, i, j)

\* the text from position i to the end
From(s, i) == Slice(s, i, Len(s))

\* index just past the run of characters of class cls that starts at i
SkipClass(s, i, cls) ==
    IF i > Len(s) THEN i
    ELSE CHOOSE j \in i..(Len(s) + 1) :
            /\ \A k \in i..(j - 1) : s[k] \in cls
            /\ (j = Len(s) + 1 \/ s[j] \notin cls)

\* index just before the run of characters of class cls that ends at j
SkipClassBack(s, j, cls) ==
    IF j < 1 THEN j
    ELSE CHOOSE i \in 0..j :
            /\ \A k \in (i + 1)..j : s[k] \in cls
            /\ (i = 0 \/ s[i] \notin cls)

\* str.strip(chars)
StripChars(s, cls) ==
    LET i == SkipClass(s, 1, cls)
        j == SkipClassBack(s, Len(s), cls)
    IN  Slice(s, i, j)

\* str.strip()
Strip(s) == StripChars(s, Spaces)

\* `c in s`
HasChar(s, c) == \E i \in 1..Len(s) : s[i] = c

\* does the literal text lit occur in s at position i, ignoring case or not
MatchLit(s, i, lit, ignoreCase) ==
    /\ i + Len(lit) - 1 <= Len(s)
    /\ \A k \in 1..Len(lit) :
          IF ignoreCase
          THEN LowerChar(s[i + k - 1]) = LowerChar(lit[k])
          ELSE s[i + k - 1] = lit[k]

(***************************************************************************)
(* Python values                                                           *)
(***************************************************************************)
PyNone == [py |-> "None"]

PyBool(b) == [py |-> "bool", b |-> b]

PyInt(n) == [py |-> "int", n |-> n]

\* a float m * 10^(-e): the decimal floats that float() and float literals
\* of a few digits produce; e >= 1 and m carries no spare trailing zero
PyFloat(m, e) == [py |-> "float", m |-> m, e |-> e]

PyStr(s) == [py |-> "str", s |-> s]

PyBytes(s) == [py |-> "bytes", s |-> s]

PyList(xs) == [py |-> "list", xs |-> xs]

PyTuple(xs) == [py |-> "tuple", xs |-> xs]

\* a dict is a TLA+ record; dict.get(k) is Get
PyDict(d) == [py |-> "dict", d |-> d]

IsStr(v) == v.py = "str"

IsNum(v) == v.py \in {"int", "float", "bool"}

RECURSIVE Pow10(_)
Pow10(k) == IF k = 0 THEN 1 ELSE 10 * Pow10(k - 1)

\* drop trailing zeros of the fraction, keeping one fractional digit
RECURSIVE NormFloat(_, _)
NormFloat(m, e) ==
    IF e > 1 /\ m % 10 = 0 THEN NormFloat(m \div 10, e - 1) ELSE PyFloat(m, e)

\* bool(v)
Truthy(v) ==
    CASE v.py = "None"  -> FALSE
      [] v.py = "bool"  -> v.b
      [] v.py = "int"   -> v.n # 0
      [] v.py = "float" -> v.m # 0
      [] v.py = "str"   -> Len(v.s) > 0
      [] v.py = "bytes" -> Len(v.s) > 0
      [] v.py = "list"  -> Len(v.xs) > 0
      [] v.py = "tuple" -> Len(v.xs) > 0
      [] v.py = "dict"  -> DOMAIN v.d # {}

\* dict.get(key): None for a missing key
Get(a, key) == IF key \in DOMAIN a.d THEN a.d[key] ELSE PyNone

\* dict.get(key, default)
GetDefault(a, key, default) == IF key \in DOMAIN a.d THEN a.d[key] ELSE default

RECURSIVE NatText(_)
NatText(n) ==
    IF n < 10 THEN <<DigitSeq[n + 1]>>
    ELSE Append(NatText(n \div 10), DigitSeq[(n % 10) + 1])

IntText(n) == IF n < 0 THEN <<"-">> \o NatText(-n) ELSE NatText(n)

\* the e fractional digits of m, zero-padded on the left
RECURSIVE FracText(_, _)
FracText(m, e) ==
    IF e = 0 THEN <<>>
    ELSE Append(FracText(m \div 10, e - 1), DigitSeq[(m % 10) + 1])

FloatText(m, e) ==
    LET a == IF m < 0 THEN -m ELSE m
    IN  (IF m < 0 THEN <<"-">> ELSE <<>>)
        \o NatText(a \div Pow10(e)) \o <<".">> \o FracText(a % Pow10(e), e)

\* str(v) on the values a snapshot holds
StrOf(v) ==
    CASE v.py = "None"  -> <<"N", "o", "n", "e">>
      [] v.py = "bool"  -> IF v.b THEN <<"T", "r", "u", "e">>
                                  ELSE <<"F", "a", "l", "s", "e">>
      [] v.py = "int"   -> IntText(v.n)
      [] v.py = "float" -> FloatText(v.m, v.e)
      [] v.py = "str"   -> v.s

(***************************************************************************)
(* Validation                                                              *)
(*                                                                         *)
(* A finding stands for the message the code formats: its kind, the name   *)
(* of the scene and the index of the ui element (-1 when the message names *)
(* none).  A mapping whose order of keys matters carries the keys in       *)
(* insertion order under ks.                                               *)
(***************************************************************************)
\* a dict with its keys in insertion order
OrderedDict(ks, d) == [py |-> "dict", d |-> d, ks |-> ks]

Finding(kind, scene, index) == [kind |-> kind, scene |-> scene, index |-> index]

\* (errors, warnings)
Report(errors, warnings) == [errors |-> errors, warnings |-> warnings]

\* `for i, item in enumerate(ui)`, from the item at position i (index i - 1)
RECURSIVE ValidateItems(_, _, _, _)
ValidateItems(sname, ui, i, errors) ==
    IF i > Len(ui) THEN errors
    ELSE ValidateItems(sname, ui, i + 1,
             IF ui[i].py # "dict"
             THEN Append(errors, Finding("item_not_mapping", sname, i - 1))
             ELSE IF "type" \notin DOMAIN ui[i].d
             THEN Append(errors, Finding("item_missing_type", sname, i - 1))
             ELSE errors)

\* the body of `for sname, scene in data["scenes"].items()`
ValidateScene(sname, scene, r) ==
    IF scene.py # "dict"
    THEN Report(Append(r.errors, Finding("scene_not_mapping", sname, -1)), r.warnings)
    ELSE IF Get(scene, "ui") = PyNone
    THEN Report(r.errors, Append(r.warnings, Finding("scene_no_ui", sname, -1)))
    ELSE IF Get(scene, "ui").py # "list"
    THEN Report(Append(r.errors, Finding("ui_not_list", sname, -1)), r.warnings)
    ELSE Report(ValidateItems(sname, Get(scene, "ui").xs, 1, r.errors), r.warnings)

\* a loop over the scenes that ends at the first scene with an error
RECURSIVE ValidateScenesStopping(_, _, _)
ValidateScenesStopping(scenes, k, r) ==
    IF k > Len(scenes.ks) \/ r.errors # <<>> THEN r
    ELSE ValidateScenesStopping(scenes, k + 1,
             ValidateScene(scenes.ks[k], scenes.d[scenes.ks[k]], r))

\* `for sname, scene in data["scenes"].items()`, from the k-th scene
RECURSIVE ValidateScenes(_, _, _)
ValidateScenes(scenes, k, r) ==
    IF k > Len(scenes.ks) THEN r
    ELSE ValidateScenes(scenes, k + 1,
             ValidateScene(scenes.ks[k], scenes.d[scenes.ks[k]], r))

\* a validation that, when `scenes` is a list, reports it and goes on to
\* check the first element as a scene
validate_ikp_continuing(data) ==
    IF data.py # "dict"
    THEN Report(<<Finding("root_not_mapping", "", -1)>>, <<>>)
    ELSE IF "scenes" \notin DOMAIN data.d \/ data.d.scenes.py # "dict"
    THEN IF /\ "scenes" \in DOMAIN data.d
            /\ data.d.scenes.py = "list"
            /\ data.d.scenes.xs # <<>>
         THEN ValidateScene("", data.d.scenes.xs[1],
                            Report(<<Finding("scenes_not_mapping", "", -1)>>, <<>>))
         ELSE Report(<<Finding("scenes_not_mapping", "", -1)>>, <<>>)
    ELSE ValidateScenes(data.d.scenes, 1, Report(<<>>, <<>>))

\* validate_ikp(data)
validate_ikp(data) ==
    IF data.py # "dict"
    THEN Report(<<Finding("root_not_mapping", "", -1)>>, <<>>)
    ELSE IF "scenes" \notin DOMAIN data.d \/ data.d.scenes.py # "dict"
    THEN Report(<<Finding("scenes_not_mapping", "", -1)>>, <<>>)
    ELSE ValidateScenes(data.d.scenes, 1, Report(<<>>, <<>>))

(***************************************************************************)
(* Interpolation                                                           *)
(***************************************************************************)
\* vars_map.get(key) on a snapshot (a function from names to values)
MapGet(vars_map, key) ==
    IF key \in DOMAIN vars_map THEN vars_map[key] ELSE PyNone

\* _extract_var_value: a snapshot value is neither callable nor has a get
\* method, so both probes are skipped and the value itself is returned
ExtractVarValue(v) == v

\* a replacement that writes an absent value as the text of None
ReplWritingNone(key, vars_map) == StrOf(ExtractVarValue(MapGet(vars_map, key)))

\* repl: the replacement text of one ${key} token
Repl(key, vars_map) ==
    LET val == ExtractVarValue(MapGet(vars_map, key))
    IN  IF val = PyNone THEN <<>> ELSE StrOf(val)

\* the index of the closing brace of a \$\{([a-zA-Z0-9_]+)\} token that
\* starts at position p, 0 when none starts there
VarTokenEnd(s, p) ==
    IF ~MatchLit(s, p, <<"$", "{">>, FALSE) THEN 0
    ELSE LET j == SkipClass(s, p + 2, IdChars)
         IN  IF j > p + 2 /\ j <= Len(s) /\ s[j] = "}" THEN j ELSE 0

\* _VAR_PATTERN.sub(repl, text) from position i: leftmost non-overlapping
\* matches of the pattern; the replacement is not scanned again
RECURSIVE SubFrom(_, _, _)
SubFrom(s, i, vars_map) ==
    LET starts == {p \in i..Len(s) : VarTokenEnd(s, p) # 0}
        First(p) == Slice(s, i, p - 1)
                    \o Repl(Slice(s, p + 2, VarTokenEnd(s, p) - 1), vars_map)
                    \o SubFrom(s, VarTokenEnd(s, p) + 1, vars_map)
    IN  IF starts = {} THEN From(s, i)
        ELSE First(CHOOSE p \in starts : \A q \in starts : p <= q)

\* an interpolation that scans its own output once more
interpolate_rescanning(text, vars_map) ==
    IF ~IsStr(text) THEN text
    ELSE PyStr(SubFrom(SubFrom(text.s, 1, vars_map), 1, vars_map))

\* interpolate(text, vars_map)
interpolate(text, vars_map) ==
    IF ~IsStr(text) THEN text ELSE PyStr(SubFrom(text.s, 1, vars_map))

(***************************************************************************)
(* int() and float()                                                       *)
(***************************************************************************)
\* a run of digits from position i, single underscores allowed between
\* digits: the index after the run, its value and its number of digits
RECURSIVE DigitsFrom(_, _, _, _)
DigitsFrom(s, i, acc, cnt) ==
    IF i <= Len(s) /\ s[i] \in Digits
    THEN DigitsFrom(s, i + 1, 10 * acc + DigitVal(s[i]), cnt + 1)
    ELSE IF /\ i < Len(s)
            /\ s[i] = "_"
            /\ cnt > 0
            /\ s[i + 1] \in Digits
    THEN DigitsFrom(s, i + 1, acc, cnt)
    ELSE [j |-> i, n |-> acc, k |-> cnt]

\* int(text): optional sign and a run of digits, surrounding space ignored
IntParse(s0) ==
    LET Signed(s, sgn, r) ==
            IF r.k > 0 /\ r.j = Len(s) + 1
            THEN [ok |-> TRUE, v |-> PyInt(IF sgn /\ s[1] = "-" THEN -r.n ELSE r.n)]
            ELSE [ok |-> FALSE, v |-> PyNone]
        WithSign(s, sgn) == Signed(s, sgn, DigitsFrom(s, IF sgn THEN 2 ELSE 1, 0, 0))
        Stripped(s) == WithSign(s, Len(s) >= 1 /\ s[1] \in {"+", "-"})
    IN  Stripped(Strip(s0))

\* float(text): [sign] digits [. digits] [e [sign] digits]
FloatParse(s0) ==
    LET \* a, b, c: the digits before the point, after it and of the exponent
        Result(s, sgn, a, b, neg, c) ==
            IF a.k + b.k > 0 /\ c.k > 0 /\ c.j = Len(s) + 1
            THEN [ok |-> TRUE,
                  v  |-> NormFloat((IF sgn /\ s[1] = "-" THEN -1 ELSE 1)
                                     * (a.n * Pow10(b.k) + b.n)
                                     * (IF neg THEN 1 ELSE Pow10(c.n)) * 10,
                                   (IF neg THEN b.k + c.n ELSE b.k) + 1)]
            ELSE [ok |-> FALSE, v |-> PyNone]
        WithExp(s, sgn, a, b, ex, esgn) ==
            Result(s, sgn, a, b, esgn /\ s[b.j + 1] = "-",
                   IF ex THEN DigitsFrom(s, IF esgn THEN b.j + 2 ELSE b.j + 1, 0, 0)
                   ELSE [j |-> b.j, n |-> 0, k |-> 1])
        WithFrac(s, sgn, a, b) ==
            WithExp(s, sgn, a, b,
                    b.j <= Len(s) /\ s[b.j] \in {"e", "E"},
                    /\ b.j <= Len(s) /\ s[b.j] \in {"e", "E"}
                    /\ b.j + 1 <= Len(s) /\ s[b.j + 1] \in {"+", "-"})
        WithInt(s, sgn, a) ==
            WithFrac(s, sgn, a,
                     IF a.j <= Len(s) /\ s[a.j] = "."
                     THEN DigitsFrom(s, a.j + 1, 0, 0)
                     ELSE [j |-> a.j, n |-> 0, k |-> 0])
        WithSign(s, sgn) == WithInt(s, sgn, DigitsFrom(s, IF sgn THEN 2 ELSE 1, 0, 0))
        Stripped(s) == WithSign(s, Len(s) >= 1 /\ s[1] \in {"+", "-"})
    IN  Stripped(Strip(s0))

\* float(v): numbers convert, text is parsed, anything else is a TypeError
ToFloat(v) ==
    CASE v.py = "float" -> [ok |-> TRUE, v |-> v]
      [] v.py = "int"   -> [ok |-> TRUE, v |-> PyFloat(v.n * 10, 1)]
      [] v.py = "bool"  -> [ok |-> TRUE, v |-> PyFloat(IF v.b THEN 10 ELSE 0, 1)]
      [] v.py = "str"   -> FloatParse(v.s)
      [] OTHER          -> [ok |-> FALSE, v |-> PyNone]

(***************************************************************************)
(* ast.parse(expr, mode='eval'): tokens                                    *)
(*                                                                         *)
(* The parser covers the expression grammar of Python over the characters  *)
(* letters, digits, white space and $ { } ( ) [ ] , . : ' " + - * / % < >  *)
(* = ! & | ^ ~ @ _ #.  Slices, keyword arguments, starred items, dict      *)
(* entries,                                                                *)
(* hexadecimal/octal/binary literals, generator expressions and string     *)
(* escapes are not covered: a text using them is reported as a parse       *)
(* error.  Floats are exact decimals (0.1 + 0.2 is 0.3 here).              *)
(***************************************************************************)
Keywords ==
    {<<"a", "n", "d">>,
     <<"a", "s">>,
     <<"a", "s", "s", "e", "r", "t">>,
     <<"a", "s", "y", "n", "c">>,
     <<"a", "w", "a", "i", "t">>,
     <<"b", "r", "e", "a", "k">>,
     <<"c", "l", "a", "s", "s">>,
     <<"c", "o", "n", "t", "i", "n", "u", "e">>,
     <<"d", "e", "f">>,
     <<"d", "e", "l">>,
     <<"e", "l", "i", "f">>,
     <<"e", "l", "s", "e">>,
     <<"e", "x", "c", "e", "p", "t">>,
     <<"f", "i", "n", "a", "l", "l", "y">>,
     <<"f", "o", "r">>,
     <<"f", "r", "o", "m">>,
     <<"g", "l", "o", "b", "a", "l">>,
     <<"i", "f">>,
     <<"i", "m", "p", "o", "r", "t">>,
     <<"i", "n">>,
     <<"i", "s">>,
     <<"l", "a", "m", "b", "d", "a">>,
     <<"n", "o", "n", "l", "o", "c", "a", "l">>,
     <<"n", "o", "t">>,
     <<"o", "r">>,
     <<"p", "a", "s", "s">>,
     <<"r", "a", "i", "s", "e">>,
     <<"r", "e", "t", "u", "r", "n">>,
     <<"t", "r", "y">>,
     <<"w", "h", "i", "l", "e">>,
     <<"w", "i", "t", "h">>,
     <<"y", "i", "e", "l", "d">>,
     <<"T", "r", "u", "e">>,
     <<"F", "a", "l", "s", "e">>,
     <<"N", "o", "n", "e">>}

Tok(k, v) == [k |-> k, v |-> v]

\* the operators of two characters, tried before those of one character
Ops2 == {<<"*", "*">>, <<"/", "/">>, <<"=", "=">>, <<"!", "=">>, <<"<", "=">>,
         <<">", "=">>, <<"<", "<">>, <<">", ">">>, <<":", "=">>}

Ops1 == {"+", "-", "*", "/", "%", "<", ">", "(", ")", "[", "]", "{", "}",
         ",", ".", ":", "&", "|", "^", "~", "@", "="}

Openers == {<<"(">>, <<"[">>, <<"{">>}

Closers == {<<")">>, <<"]">>, <<"}">>}

\* index of the quote that closes a string opened just before i, or 0
CloseQuote(s, i, q) ==
    LET j == SkipClass(s, i, {s[k] : k \in 1..Len(s)} \ {q, "\n", "\r"})
    IN  IF j <= Len(s) /\ s[j] = q THEN j ELSE 0

\* the index of the line break that ends a comment
SkipLine(s, i) == SkipClass(s, i, {s[k] : k \in 1..Len(s)} \ {"\n", "\r"})

\* the end (exclusive) of the number literal that starts at i
NumberEnd(s, i) ==
    LET Ends(b, ex, c) == IF ex /\ c.k > 0 THEN c.j ELSE b.j
        WithExp(b, ex, esgn) ==
            Ends(b, ex,
                 IF ex THEN DigitsFrom(s, IF esgn THEN b.j + 2 ELSE b.j + 1, 0, 0)
                 ELSE [j |-> b.j, n |-> 0, k |-> 0])
        WithFrac(b) ==
            WithExp(b,
                    b.j <= Len(s) /\ s[b.j] \in {"e", "E"},
                    /\ b.j <= Len(s) /\ s[b.j] \in {"e", "E"}
                    /\ b.j + 1 <= Len(s) /\ s[b.j + 1] \in {"+", "-"})
        WithInt(a) ==
            WithFrac(IF a.j <= Len(s) /\ s[a.j] = "."
                     THEN DigitsFrom(s, a.j + 1, 0, 0)
                     ELSE [j |-> a.j, n |-> 0, k |-> 0])
    IN  WithInt(DigitsFrom(s, i, 0, 0))

\* the value of a number literal: a float when it has a dot or an exponent;
\* an integer literal other than zero must not start with 0
NumberValue(lit) ==
    LET Whole(r) ==
            IF r.ok /\ lit[1] = "0" /\ r.v.n # 0
            THEN [ok |-> FALSE, v |-> PyNone]
            ELSE r
    IN  IF HasChar(lit, ".") \/ HasChar(lit, "e") \/ HasChar(lit, "E")
        THEN FloatParse(lit)
        ELSE Whole(IntParse(lit))

\* the tokenizer's state: the tokens toks read so far, the position i of the
\* next one and the number depth of open brackets, inside which a line break
\* is white space; ok = FALSE once a character fits no token
NoTokens == [ok |-> FALSE, toks |-> <<>>, i |-> 0, depth |-> 0]

\* the state after token tok, which ends before position j
Lexed(s, toks, tok, j, depth) ==
    [ok |-> TRUE, toks |-> Append(toks, tok),
     i |-> SkipClass(s, j, IF depth > 0 THEN Spaces ELSE {" ", "\t"}),
     depth |-> depth]

\* the state after the token that starts at position st.i
Lex(s, st) ==
    LET p == st.i
        \* a number literal that ends before j
        Number(j) ==
            LET Valued(val) ==
                    IF val.ok /\ (j > Len(s) \/ s[j] \notin IdChars)
                    THEN Lexed(s, st.toks, Tok("num", val.v), j, st.depth)
                    ELSE NoTokens
            IN  Valued(NumberValue(Slice(s, p, j - 1)))
        \* a string or bytes literal opened before position a, closed at j
        Quoted(kind, a, j) ==
            IF j = 0 THEN NoTokens
            ELSE Lexed(s, st.toks, Tok(kind, [py |-> kind, s |-> Slice(s, a, j - 1)]),
                       j + 1, st.depth)
        \* a keyword or a name that ends before j
        Word(j) ==
            Lexed(s, st.toks,
                  Tok(IF Slice(s, p, j - 1) \in Keywords THEN "kw" ELSE "name",
                      Slice(s, p, j - 1)),
                  j, st.depth)
    IN
    CASE s[p] \in {"\n", "\r"} -> NoTokens
      [] s[p] = "#" ->
            [st EXCEPT !.i = SkipClass(s, SkipLine(s, p),
                                       IF st.depth > 0 THEN Spaces ELSE {" ", "\t"})]
      [] s[p] \in Digits \/ (s[p] = "." /\ p < Len(s) /\ s[p + 1] \in Digits) ->
            Number(NumberEnd(s, p))
      [] s[p] \in {"b", "B"} /\ p < Len(s) /\ s[p + 1] \in {"'", "\""} ->
            Quoted("bytes", p + 2, CloseQuote(s, p + 2, s[p + 1]))
      [] s[p] \in IdChars \ Digits -> Word(SkipClass(s, p, IdChars))
      [] s[p] \in {"'", "\""} -> Quoted("str", p + 1, CloseQuote(s, p + 1, s[p]))
      [] p < Len(s) /\ <<s[p], s[p + 1]>> \in Ops2 ->
            Lexed(s, st.toks, Tok("op", <<s[p], s[p + 1]>>), p + 2, st.depth)
      [] s[p] \in Ops1 ->
            Lexed(s, st.toks, Tok("op", <<s[p]>>), p + 1,
                  IF <<s[p]>> \in Openers THEN st.depth + 1
                  ELSE IF <<s[p]>> \in Closers /\ st.depth > 0 THEN st.depth - 1
                  ELSE st.depth)
      [] OTHER -> NoTokens

\* the tokens of s, read one by one from the state st
RECURSIVE Tokens(_, _)
Tokens(s, st) ==
    IF st.ok /\ st.i <= Len(s) THEN Tokens(s, Lex(s, st)) ELSE st

(***************************************************************************)
(* ast.parse(expr, mode='eval'): the tree                                  *)
(*                                                                         *)
(* A node carries its class name, its value (Constant, Name) and its child *)
(* nodes in the order of ast.iter_child_nodes: operator and context nodes  *)
(* (Add, Gt, Load, ...) are children like any other.                       *)
(***************************************************************************)
Node(tag, val, kids) == [tag |-> tag, val |-> val, kids |-> kids]

Leaf(tag) == Node(tag, PyNone, <<>>)

NameNode(id) == Node("Name", PyStr(id), <<Leaf("Load")>>)

Const(v) == Node("Constant", v, <<>>)

PFail == [ok |-> FALSE, node |-> Leaf("None"), j |-> 0]

POk(node, j) == [ok |-> TRUE, node |-> node, j |-> j]

LFail == [ok |-> FALSE, nodes |-> <<>>, j |-> 0, comma |-> FALSE]

At(toks, i) == IF i >= 1 /\ i <= Len(toks) THEN toks[i] ELSE Tok("end", <<>>)

IsOp(toks, i, o) == At(toks, i).k = "op" /\ At(toks, i).v = o

IsKw(toks, i, w) == At(toks, i).k = "kw" /\ At(toks, i).v = w

kwTrue == <<"T", "r", "u", "e">>

kwFalse == <<"F", "a", "l", "s", "e">>

kwNone == <<"N", "o", "n", "e">>

kwAnd == <<"a", "n", "d">>

kwOr == <<"o", "r">>

kwNot == <<"n", "o", "t">>

kwIn == <<"i", "n">>

kwIs == <<"i", "s">>

kwIf == <<"i", "f">>

kwElse == <<"e", "l", "s", "e">>

kwFor == <<"f", "o", "r">>

kwLambda == <<"l", "a", "m", "b", "d", "a">>

\* the binding strength of a binary operator, 0 for any other token
BinLevel(o) ==
    CASE o = <<"|">> -> 5
      [] o = <<"^">> -> 6
      [] o = <<"&">> -> 7
      [] o \in {<<"<", "<">>, <<">", ">">>} -> 8
      [] o \in {<<"+">>, <<"-">>} -> 9
      [] o \in {<<"*">>, <<"/">>, <<"%">>, <<"/", "/">>, <<"@">>} -> 10
      [] OTHER -> 0

BinTag(o) ==
    CASE o = <<"|">> -> "BitOr"
      [] o = <<"^">> -> "BitXor"
      [] o = <<"&">> -> "BitAnd"
      [] o = <<"<", "<">> -> "LShift"
      [] o = <<">", ">">> -> "RShift"
      [] o = <<"+">> -> "Add"
      [] o = <<"-">> -> "Sub"
      [] o = <<"*">> -> "Mult"
      [] o = <<"/">> -> "Div"
      [] o = <<"%">> -> "Mod"
      [] o = <<"/", "/">> -> "FloorDiv"
      [] o = <<"@">> -> "MatMult"

\* the comparison operator at position i: its class and its token count
CmpAt(toks, i) ==
    CASE IsOp(toks, i, <<"=", "=">>) -> [tag |-> "Eq", n |-> 1]
      [] IsOp(toks, i, <<"!", "=">>) -> [tag |-> "NotEq", n |-> 1]
      [] IsOp(toks, i, <<"<", "=">>) -> [tag |-> "LtE", n |-> 1]
      [] IsOp(toks, i, <<">", "=">>) -> [tag |-> "GtE", n |-> 1]
      [] IsOp(toks, i, <<"<">>) -> [tag |-> "Lt", n |-> 1]
      [] IsOp(toks, i, <<">">>) -> [tag |-> "Gt", n |-> 1]
      [] IsKw(toks, i, kwNot) /\ IsKw(toks, i + 1, kwIn) -> [tag |-> "NotIn", n |-> 2]
      [] IsKw(toks, i, kwIn) -> [tag |-> "In", n |-> 1]
      [] IsKw(toks, i, kwIs) /\ IsKw(toks, i + 1, kwNot) -> [tag |-> "IsNot", n |-> 2]
      [] IsKw(toks, i, kwIs) -> [tag |-> "Is", n |-> 1]
      [] OTHER -> [tag |-> "", n |-> 0]

\* the binding strength of the infix operator at position i, from `or` (1),
\* `and` (2), the comparisons (4) and the binary operators (5..10) to the
\* power operator (12); `not` binds at 3 and the unary signs at 11; 0 when
\* no infix operator is there
OpLevel(toks, i) ==
    CASE IsKw(toks, i, kwOr) -> 1
      [] IsKw(toks, i, kwAnd) -> 2
      [] CmpAt(toks, i).n > 0 -> 4
      [] IsOp(toks, i, <<"*", "*">>) -> 12
      [] At(toks, i).k = "op" -> BinLevel(At(toks, i).v)
      [] OTHER -> 0

UnaryTag(o) ==
    CASE o = <<"+">> -> "UAdd"
      [] o = <<"-">> -> "USub"
      [] o = <<"~">> -> "Invert"

\* the parameter names of a lambda, up to the colon: one arg node each
RECURSIVE ParseParams(_, _)
ParseParams(toks, i) ==
    IF At(toks, i).k # "name"
    THEN [ok |-> TRUE, nodes |-> <<>>, j |-> i, comma |-> FALSE]
    ELSE IF ~IsOp(toks, i + 1, <<",">>)
    THEN [ok |-> TRUE, nodes |-> <<Leaf("arg")>>, j |-> i + 1, comma |-> FALSE]
    ELSE [ok |-> TRUE, nodes |-> <<Leaf("arg")>> \o ParseParams(toks, i + 2).nodes,
          j |-> ParseParams(toks, i + 2).j, comma |-> TRUE]

\* adjacent string literals are one constant
RECURSIVE ParseStrings(_, _, _)
ParseStrings(toks, i, acc) ==
    IF At(toks, i).k = "str"
    THEN ParseStrings(toks, i + 1, acc \o At(toks, i).v.s)
    ELSE POk(Const(PyStr(acc)), i)

NoNodes(i) == [ok |-> TRUE, nodes |-> <<>>, j |-> i, comma |-> FALSE]

\* Parse(rule, toks, i, x): the grammar rule `rule` applied at token i; x is
\* what else the rule takes (a level, the operand to its left).  A rule
\* yields [ok, node, j] or, for a list of expressions, [ok, nodes, j, comma];
\* j is the token after what it took.
RECURSIVE Parse(_, _, _, _)
Parse(rule, toks, i, x) ==
    CASE rule = "Expr" ->
            \* a lambda, a conditional expression, or a boolean expression
            IF IsKw(toks, i, kwLambda)
            THEN LET c == ParseParams(toks, i + 1)
                     b == IF IsOp(toks, c.j, <<":">>)
                          THEN Parse("Expr", toks, c.j + 1, 0) ELSE PFail
                 IN  IF b.ok
                     THEN POk(Node("Lambda", PyNone,
                                   <<Node("arguments", PyNone, c.nodes), b.node>>), b.j)
                     ELSE PFail
            ELSE LET c == Parse("Level", toks, i, 1)
                 IN  IF c.ok
                     THEN IF ~IsKw(toks, c.j, kwIf) THEN c
                          ELSE LET t == Parse("Level", toks, c.j + 1, 1)
                                   e == IF t.ok /\ IsKw(toks, t.j, kwElse)
                                        THEN Parse("Expr", toks, t.j + 1, 0) ELSE PFail
                               IN  IF e.ok
                                   THEN POk(Node("IfExp", PyNone,
                                                 <<t.node, c.node, e.node>>), e.j)
                                   ELSE PFail
                     ELSE PFail
      [] rule = "Level" ->
            \* an operand and the infix operators of level x and above after it
            CASE IsKw(toks, i, kwNot) ->
                    \* `not` takes the comparisons; it is no operand of them
                    \* nor of an arithmetic operator
                    LET a == IF x <= 3 THEN Parse("Level", toks, i + 1, 3) ELSE PFail
                    IN  IF a.ok
                        THEN Parse("Rest", toks, a.j,
                                   [lvl |-> x,
                                    left |-> Node("UnaryOp", PyNone, <<Leaf("Not"), a.node>>)])
                        ELSE PFail
              [] IsOp(toks, i, <<"+">>) \/ IsOp(toks, i, <<"-">>) \/ IsOp(toks, i, <<"~">>) ->
                    \* a sign takes the power operator only
                    LET a == Parse("Level", toks, i + 1, 11)
                    IN  IF a.ok
                        THEN Parse("Rest", toks, a.j,
                                   [lvl |-> x,
                                    left |-> Node("UnaryOp", PyNone,
                                                  <<Leaf(UnaryTag(At(toks, i).v)), a.node>>)])
                        ELSE PFail
              [] OTHER ->
                    LET a == Parse("Atom", toks, i, 0)
                        p == IF a.ok THEN Parse("Trailers", toks, a.j, a.node) ELSE PFail
                    IN  IF p.ok
                        THEN Parse("Rest", toks, p.j, [lvl |-> x, left |-> p.node])
                        ELSE PFail
      [] rule = "Rest" ->
            \* the infix operators after the operand x.left that bind at level
            \* x.lvl or above; the right operand of an operator takes the
            \* operators that bind more strongly than it, that of the power
            \* operator a sign and a power
            CASE OpLevel(toks, i) = 0 \/ OpLevel(toks, i) < x.lvl -> POk(x.left, i)
              [] OpLevel(toks, i) \in {1, 2} ->
                    \* a or b or ..., a and b and ...: one BoolOp
                    LET r == Parse("BoolRest", toks, i, OpLevel(toks, i))
                    IN  IF r.ok
                        THEN Parse("Rest", toks, r.j,
                                   [lvl |-> x.lvl,
                                    left |-> Node("BoolOp", PyNone,
                                                  <<Leaf(IF IsKw(toks, i, kwOr)
                                                         THEN "Or" ELSE "And"),
                                                    x.left>> \o r.nodes)])
                        ELSE PFail
              [] OpLevel(toks, i) = 4 ->
                    LET c == Parse("CompareRest", toks, i,
                                   [left |-> x.left, ops |-> <<>>, comps |-> <<>>])
                    IN  IF c.ok
                        THEN Parse("Rest", toks, c.j, [lvl |-> x.lvl, left |-> c.node])
                        ELSE PFail
              [] OpLevel(toks, i) = 12 ->
                    LET r == Parse("Level", toks, i + 1, 11)
                    IN  IF r.ok
                        THEN Parse("Rest", toks, r.j,
                                   [lvl |-> x.lvl,
                                    left |-> Node("BinOp", PyNone,
                                                  <<x.left, Leaf("Pow"), r.node>>)])
                        ELSE PFail
              [] OTHER ->
                    LET r == Parse("Level", toks, i + 1, OpLevel(toks, i) + 1)
                    IN  IF r.ok
                        THEN Parse("Rest", toks, r.j,
                                   [lvl |-> x.lvl,
                                    left |-> Node("BinOp", PyNone,
                                                  <<x.left, Leaf(BinTag(At(toks, i).v)),
                                                    r.node>>)])
                        ELSE PFail
      [] rule = "BoolRest" ->
            \* the operands that follow at the `or` level (1) or `and` level (2)
            IF IsKw(toks, i, IF x = 1 THEN kwOr ELSE kwAnd)
            THEN LET a == Parse("Level", toks, i + 1, x + 1)
                     r == IF a.ok THEN Parse("BoolRest", toks, a.j, x) ELSE LFail
                 IN  IF r.ok
                     THEN [ok |-> TRUE, nodes |-> <<a.node>> \o r.nodes, j |-> r.j,
                           comma |-> FALSE]
                     ELSE LFail
            ELSE NoNodes(i)
      [] rule = "CompareRest" ->
            \* a < b <= c ...: one Compare node, operators then comparators
            IF CmpAt(toks, i).n = 0
            THEN POk(Node("Compare", PyNone, <<x.left>> \o x.ops \o x.comps), i)
            ELSE LET r == Parse("Level", toks, i + CmpAt(toks, i).n, 5)
                 IN  IF r.ok
                     THEN Parse("CompareRest", toks, r.j,
                                [left |-> x.left,
                                 ops |-> Append(x.ops, Leaf(CmpAt(toks, i).tag)),
                                 comps |-> Append(x.comps, r.node)])
                     ELSE PFail
      [] rule = "Trailers" ->
            \* calls f(...), subscripts a[i] and attributes a.b after atom x
            CASE IsOp(toks, i, <<"(">>) ->
                    LET r == IF IsOp(toks, i + 1, <<")">>) THEN NoNodes(i + 1)
                             ELSE Parse("ExprList", toks, i + 1, 0)
                    IN  IF ~r.ok \/ ~IsOp(toks, r.j, <<")">>) THEN PFail
                        ELSE Parse("Trailers", toks, r.j + 1,
                                   Node("Call", PyNone, <<x>> \o r.nodes))
              [] IsOp(toks, i, <<"[">>) ->
                    LET r == Parse("Expr", toks, i + 1, 0)
                    IN  IF ~r.ok \/ ~IsOp(toks, r.j, <<"]">>) THEN PFail
                        ELSE Parse("Trailers", toks, r.j + 1,
                                   Node("Subscript", PyNone, <<x, r.node, Leaf("Load")>>))
              [] IsOp(toks, i, <<".">>) ->
                    IF At(toks, i + 1).k # "name" THEN PFail
                    ELSE Parse("Trailers", toks, i + 2,
                               Node("Attribute", PyStr(At(toks, i + 1).v),
                                    <<x, Leaf("Load")>>))
              [] OTHER -> POk(x, i)
      [] rule = "Atom" ->
            LET t == At(toks, i) IN
            CASE t.k = "num" -> POk(Const(t.v), i + 1)
              [] t.k = "str" -> ParseStrings(toks, i, <<>>)
              [] t.k = "bytes" -> POk(Const(t.v), i + 1)
              [] t.k = "name" -> POk(NameNode(t.v), i + 1)
              [] t.k = "kw" ->
                    CASE t.v = kwTrue -> POk(Const(PyBool(TRUE)), i + 1)
                      [] t.v = kwFalse -> POk(Const(PyBool(FALSE)), i + 1)
                      [] t.v = kwNone -> POk(Const(PyNone), i + 1)
                      [] OTHER -> PFail
              [] IsOp(toks, i, <<"(">>) ->
                    IF IsOp(toks, i + 1, <<")">>)
                    THEN POk(Node("Tuple", PyNone, <<Leaf("Load")>>), i + 2)
                    ELSE LET r == Parse("ExprList", toks, i + 1, 0)
                         IN  IF ~r.ok \/ ~IsOp(toks, r.j, <<")">>) THEN PFail
                             ELSE IF ~r.comma THEN POk(r.nodes[1], r.j + 1)
                             ELSE POk(Node("Tuple", PyNone,
                                           Append(r.nodes, Leaf("Load"))), r.j + 1)
              [] IsOp(toks, i, <<"[">>) ->
                    IF IsOp(toks, i + 1, <<"]">>)
                    THEN POk(Node("List", PyNone, <<Leaf("Load")>>), i + 2)
                    ELSE LET r == Parse("ExprList", toks, i + 1, 0)
                         IN  IF ~r.ok THEN PFail
                             ELSE IF IsOp(toks, r.j, <<"]">>)
                             THEN POk(Node("List", PyNone,
                                           Append(r.nodes, Leaf("Load"))), r.j + 1)
                             ELSE IF /\ Len(r.nodes) = 1
                                     /\ ~r.comma
                                     /\ IsKw(toks, r.j, kwFor)
                                     /\ At(toks, r.j + 1).k = "name"
                                     /\ IsKw(toks, r.j + 2, kwIn)
                             THEN LET it == Parse("Level", toks, r.j + 3, 1)
                                  IN  IF ~it.ok \/ ~IsOp(toks, it.j, <<"]">>) THEN PFail
                                      ELSE POk(Node("ListComp", PyNone,
                                                  <<r.nodes[1],
                                                    Node("comprehension", PyNone,
                                                         <<Node("Name",
                                                                PyStr(At(toks, r.j + 1).v),
                                                                <<Leaf("Store")>>),
                                                           it.node>>)>>), it.j + 1)
                             ELSE PFail
              [] IsOp(toks, i, <<"{">>) ->
                    IF IsOp(toks, i + 1, <<"}">>)
                    THEN POk(Node("Dict", PyNone, <<>>), i + 2)
                    ELSE LET r == Parse("ExprList", toks, i + 1, 0)
                         IN  IF ~r.ok \/ ~IsOp(toks, r.j, <<"}">>) THEN PFail
                             ELSE POk(Node("Set", PyNone, r.nodes), r.j + 1)
              [] OTHER -> PFail
      [] rule = "ExprList" ->
            \* e1, e2, ... with an optional trailing comma
            LET a == Parse("Expr", toks, i, 0)
            IN  IF ~a.ok THEN LFail
                ELSE IF ~IsOp(toks, a.j, <<",">>)
                THEN [ok |-> TRUE, nodes |-> <<a.node>>, j |-> a.j, comma |-> FALSE]
                ELSE IF \/ At(toks, a.j + 1).k = "end"
                        \/ (At(toks, a.j + 1).k = "op" /\ At(toks, a.j + 1).v \in Closers)
                THEN [ok |-> TRUE, nodes |-> <<a.node>>, j |-> a.j + 1, comma |-> TRUE]
                ELSE LET r == Parse("ExprList", toks, a.j + 1, 0)
                     IN  IF ~r.ok THEN LFail
                         ELSE [ok |-> TRUE, nodes |-> <<a.node>> \o r.nodes, j |-> r.j,
                               comma |-> TRUE]

\* ast.parse on the tokens t
ParseTokens(t) ==
    LET Tree(r) ==
            IF ~r.ok \/ r.j # Len(t.toks) + 1 THEN PFail
            ELSE POk(Node("Expression", PyNone,
                          <<IF r.comma
                            THEN Node("Tuple", PyNone, Append(r.nodes, Leaf("Load")))
                            ELSE r.nodes[1]>>), r.j)
    IN  Tree(IF t.ok /\ t.toks # <<>> THEN Parse("ExprList", t.toks, 1, 0) ELSE LFail)

\* the tokenizer's state before the first token of s
LexStart(s) ==
    [ok |-> TRUE, toks |-> <<>>, i |-> SkipClass(s, 1, {" ", "\t"}), depth |-> 0]

AstParse(text) == ParseTokens(Tokens(text, LexStart(text)))

(***************************************************************************)
(* eval(code, {"__builtins__": None}, safe_locals): Python's evaluation of *)
(* the checked tree.  A result is [ok, v]; ok = FALSE is a raised          *)
(* exception (NameError/TypeError/ZeroDivisionError ...).                  *)
(***************************************************************************)
EOk(v) == [ok |-> TRUE, v |-> v]

EFail == [ok |-> FALSE, v |-> PyNone]

\* digits kept by a true division that does not terminate
DivPrec == 6

ExpOf(v) == IF v.py = "float" THEN v.e ELSE 0

\* the integer v * 10^e of a number v, for e >= ExpOf(v)
Scaled(v, e) ==
    CASE v.py = "int"   -> v.n * Pow10(e)
      [] v.py = "bool"  -> IF v.b THEN Pow10(e) ELSE 0
      [] v.py = "float" -> v.m * Pow10(e - v.e)

Max(a, b) == IF a >= b THEN a ELSE b

Abs(a) == IF a < 0 THEN -a ELSE a

\* a // b of Python (floor), b # 0
FloorDivInt(a, b) == IF b > 0 THEN a \div b ELSE (-a) \div (-b)

\* a % b of Python (sign of the divisor), b # 0
ModInt(a, b) == a - b * FloorDivInt(a, b)

RECURSIVE IntPow(_, _)
IntPow(a, k) == IF k = 0 THEN 1 ELSE a * IntPow(a, k - 1)

RECURSIVE Repeat(_, _)
Repeat(xs, k) == IF k <= 0 THEN <<>> ELSE xs \o Repeat(xs, k - 1)

\* a / b as a float, b # 0 (p, q at the same scale)
TrueDiv(p, q) ==
    LET sgn == IF (p < 0) # (q < 0) THEN -1 ELSE 1
    IN  NormFloat(sgn * ((Abs(p) * Pow10(DivPrec)) \div Abs(q)), DivPrec)

\* the ASCII code of a character
Ord(c) ==
    CASE c \in Digits -> 48 + DigitVal(c)
      [] c \in Upper -> 64 + (CHOOSE i \in 1..26 : UpperSeq[i] = c)
      [] c \in Lower -> 96 + (CHOOSE i \in 1..26 : LowerSeq[i] = c)
      [] c = "\t" -> 9    [] c = "\n" -> 10   [] c = "\r" -> 13
      [] c = " " -> 32    [] c = "!" -> 33    [] c = "\"" -> 34
      [] c = "#" -> 35    [] c = "$" -> 36    [] c = "%" -> 37
      [] c = "&" -> 38    [] c = "'" -> 39    [] c = "(" -> 40
      [] c = ")" -> 41    [] c = "*" -> 42    [] c = "+" -> 43
      [] c = "," -> 44    [] c = "-" -> 45    [] c = "." -> 46
      [] c = "/" -> 47    [] c = ":" -> 58    [] c = ";" -> 59
      [] c = "<" -> 60    [] c = "=" -> 61    [] c = ">" -> 62
      [] c = "?" -> 63    [] c = "@" -> 64    [] c = "[" -> 91
      [] c = "]" -> 93    [] c = "^" -> 94    [] c = "_" -> 95
      [] c = "{" -> 123   [] c = "|" -> 124   [] c = "}" -> 125
      [] c = "~" -> 126

SeqKinds == {"list", "tuple"}

TextKinds == {"str", "bytes"}

\* a == b
RECURSIVE PyEq(_, _)
PyEq(a, b) ==
    CASE IsNum(a) /\ IsNum(b) ->
            LET e == Max(ExpOf(a), ExpOf(b)) IN Scaled(a, e) = Scaled(b, e)
      [] a.py # b.py -> FALSE
      [] a.py \in SeqKinds ->
            /\ Len(a.xs) = Len(b.xs)
            /\ \A i \in 1..Len(a.xs) : PyEq(a.xs[i], b.xs[i])
      [] OTHER -> a = b

\* the three-way order of a and b: "lt", "eq", "gt", or "err" (TypeError)
RECURSIVE PyCmp(_, _)
PyCmp(a, b) ==
    CASE IsNum(a) /\ IsNum(b) ->
            LET e == Max(ExpOf(a), ExpOf(b))
                x == Scaled(a, e)
                y == Scaled(b, e)
            IN  IF x < y THEN "lt" ELSE IF x = y THEN "eq" ELSE "gt"
      [] a.py # b.py -> "err"
      [] a.py \in TextKinds ->
            LET D == {i \in 1..Len(a.s) : i > Len(b.s) \/ a.s[i] # b.s[i]}
                i == CHOOSE k \in D : \A l \in D : k <= l
            IN  IF D = {} THEN (IF Len(a.s) = Len(b.s) THEN "eq" ELSE "lt")
                ELSE IF i > Len(b.s) THEN "gt"
                ELSE IF Ord(a.s[i]) < Ord(b.s[i]) THEN "lt" ELSE "gt"
      [] a.py \in SeqKinds ->
            LET D == {i \in 1..Len(a.xs) : i > Len(b.xs) \/ ~PyEq(a.xs[i], b.xs[i])}
                i == CHOOSE k \in D : \A l \in D : k <= l
            IN  IF D = {} THEN (IF Len(a.xs) = Len(b.xs) THEN "eq" ELSE "lt")
                ELSE IF i > Len(b.xs) THEN "gt"
                ELSE PyCmp(a.xs[i], b.xs[i])
      [] OTHER -> "err"

\* one comparison operator applied to two values
CompareOp(tag, a, b) ==
    LET Ordered(c) ==
            CASE c = "err"     -> EFail
              [] tag = "Lt"    -> EOk(PyBool(c = "lt"))
              [] tag = "LtE"   -> EOk(PyBool(c \in {"lt", "eq"}))
              [] tag = "Gt"    -> EOk(PyBool(c = "gt"))
              [] tag = "GtE"   -> EOk(PyBool(c \in {"gt", "eq"}))
        Equal(eq) ==
            CASE tag = "Eq"    -> EOk(PyBool(eq))
              [] tag = "NotEq" -> EOk(PyBool(~eq))
    IN
    CASE tag \in {"Eq", "NotEq"} -> Equal(PyEq(a, b))
      [] tag = "Is"    -> EOk(PyBool(a = b))
      [] tag = "IsNot" -> EOk(PyBool(a # b))
      [] tag \in {"In", "NotIn"} ->
            IF b.py \notin SeqKinds THEN EFail
            ELSE EOk(PyBool((tag = "In") = (\E i \in 1..Len(b.xs) : PyEq(a, b.xs[i]))))
      [] OTHER -> Ordered(PyCmp(a, b))

\* the result of two numbers under an arithmetic operator
NumOp(tag, a, b) ==
    LET fl == a.py = "float" \/ b.py = "float"
        e  == Max(ExpOf(a), ExpOf(b))
        x  == Scaled(a, e)
        y  == Scaled(b, e)
    IN
    CASE tag = "Add" -> EOk(IF fl THEN NormFloat(x + y, e) ELSE PyInt(x + y))
      [] tag = "Sub" -> EOk(IF fl THEN NormFloat(x - y, e) ELSE PyInt(x - y))
      [] tag = "Mult" ->
            EOk(IF fl THEN NormFloat(Scaled(a, ExpOf(a)) * Scaled(b, ExpOf(b)) * 10,
                                     ExpOf(a) + ExpOf(b) + 1)
                ELSE PyInt(x * y))
      [] tag = "Div" -> IF y = 0 THEN EFail ELSE EOk(TrueDiv(x, y))
      [] tag = "Mod" ->
            IF y = 0 THEN EFail
            ELSE EOk(IF fl THEN NormFloat(ModInt(x, y) * 10, e + 1) ELSE PyInt(ModInt(x, y)))
      [] tag = "FloorDiv" ->
            IF y = 0 THEN EFail
            ELSE EOk(IF fl THEN PyFloat(FloorDivInt(x, y) * 10, 1)
                     ELSE PyInt(FloorDivInt(x, y)))
      [] tag = "Pow" ->
            \* the exponent is an integer; a float exponent is a fault here
            LET k  == Scaled(b, 0)
                ma == Scaled(a, ExpOf(a))
            IN  IF b.py = "float" THEN EFail
                ELSE IF k >= 0
                THEN EOk(IF fl THEN NormFloat(IntPow(ma, k) * 10, ExpOf(a) * k + 1)
                         ELSE PyInt(IntPow(ma, k)))
                ELSE IF ma = 0 THEN EFail
                ELSE EOk(TrueDiv(Pow10(ExpOf(a) * (-k)), IntPow(ma, -k)))
      [] tag \in {"BitAnd", "BitOr", "BitXor", "LShift", "RShift", "MatMult"} -> EFail

\* left <op> right
BinaryOp(tag, a, b) ==
    CASE IsNum(a) /\ IsNum(b) -> NumOp(tag, a, b)
      [] tag = "Add" /\ a.py = b.py /\ a.py \in TextKinds ->
            EOk([py |-> a.py, s |-> a.s \o b.s])
      [] tag = "Add" /\ a.py = b.py /\ a.py \in SeqKinds ->
            EOk([py |-> a.py, xs |-> a.xs \o b.xs])
      [] tag = "Mult" /\ a.py \in TextKinds /\ b.py \in {"int", "bool"} ->
            EOk([py |-> a.py, s |-> Repeat(a.s, Scaled(b, 0))])
      [] tag = "Mult" /\ b.py \in TextKinds /\ a.py \in {"int", "bool"} ->
            EOk([py |-> b.py, s |-> Repeat(b.s, Scaled(a, 0))])
      [] tag = "Mult" /\ a.py \in SeqKinds /\ b.py \in {"int", "bool"} ->
            EOk([py |-> a.py, xs |-> Repeat(a.xs, Scaled(b, 0))])
      [] tag = "Mult" /\ b.py \in SeqKinds /\ a.py \in {"int", "bool"} ->
            EOk([py |-> b.py, xs |-> Repeat(b.xs, Scaled(a, 0))])
      [] OTHER -> EFail

\* <op> operand
UnaryOp(tag, a) ==
    CASE tag = "Not" -> EOk(PyBool(~Truthy(a)))
      [] tag = "USub" /\ IsNum(a) ->
            EOk(IF a.py = "float" THEN PyFloat(-a.m, a.e) ELSE PyInt(-Scaled(a, 0)))
      [] tag = "UAdd" /\ IsNum(a) ->
            EOk(IF a.py = "float" THEN a ELSE PyInt(Scaled(a, 0)))
      [] tag = "Invert" /\ a.py \in {"int", "bool"} -> EOk(PyInt(-Scaled(a, 0) - 1))
      [] OTHER -> EFail

builtinsName == <<"_", "_", "b", "u", "i", "l", "t", "i", "n", "s", "_", "_">>

\* a name is looked up in the locals, then in the globals
\* {"__builtins__": None}, then in the builtins, which are None: a fault
LoadName(id, locals) ==
    IF id \in DOMAIN locals THEN EOk(locals[id])
    ELSE IF id = builtinsName THEN EOk(PyNone)
    ELSE EFail

RECURSIVE EvalNode(_, _)
RECURSIVE EvalSeq(_, _, _)
RECURSIVE EvalBoolOp(_, _, _, _)
RECURSIVE EvalCompare(_, _, _, _)

\* the values of kids[i..], left to right
EvalSeq(kids, i, locals) ==
    IF i > Len(kids) \/ kids[i].tag \in {"Load", "Store"} THEN [ok |-> TRUE, xs |-> <<>>]
    ELSE LET a == EvalNode(kids[i], locals)
             r == IF a.ok THEN EvalSeq(kids, i + 1, locals) ELSE [ok |-> FALSE, xs |-> <<>>]
         IN  IF ~r.ok THEN r ELSE [ok |-> TRUE, xs |-> <<a.v>> \o r.xs]

\* and / or: the first operand that decides, later ones are not evaluated
EvalBoolOp(kids, i, isAnd, locals) ==
    LET a == EvalNode(kids[i], locals)
    IN  IF ~a.ok \/ i = Len(kids) THEN a
        ELSE IF Truthy(a.v) = isAnd THEN EvalBoolOp(kids, i + 1, isAnd, locals)
        ELSE a

\* a chained comparison: kids = <<left>> \o ops \o comparators, k-th link
EvalCompare(kids, left, k, locals) ==
    LET n == (Len(kids) - 1) \div 2
        Linked(b, r) ==
            IF ~r.ok \/ k = n \/ ~Truthy(r.v) THEN r
            ELSE EvalCompare(kids, b.v, k + 1, locals)
        Right(b) ==
            Linked(b, IF b.ok THEN CompareOp(kids[1 + k].tag, left, b.v) ELSE EFail)
    IN  Right(EvalNode(kids[1 + n + k], locals))

EvalNode(node, locals) ==
    CASE node.tag = "Expression" -> EvalNode(node.kids[1], locals)
      [] node.tag = "Constant" -> EOk(node.val)
      [] node.tag = "Name" -> LoadName(node.val.s, locals)
      [] node.tag = "UnaryOp" ->
            LET a == EvalNode(node.kids[2], locals)
            IN  IF ~a.ok THEN EFail ELSE UnaryOp(node.kids[1].tag, a.v)
      [] node.tag = "BinOp" ->
            LET a == EvalNode(node.kids[1], locals)
                b == IF a.ok THEN EvalNode(node.kids[3], locals) ELSE EFail
            IN  IF ~b.ok THEN EFail ELSE BinaryOp(node.kids[2].tag, a.v, b.v)
      [] node.tag = "BoolOp" ->
            EvalBoolOp(node.kids, 2, node.kids[1].tag = "And", locals)
      [] node.tag = "Compare" ->
            LET a == EvalNode(node.kids[1], locals)
            IN  IF ~a.ok THEN EFail ELSE EvalCompare(node.kids, a.v, 1, locals)
      [] node.tag \in {"List", "Tuple"} ->
            LET r == EvalSeq(node.kids, 1, locals)
            IN  IF ~r.ok THEN EFail
                ELSE EOk(IF node.tag = "List" THEN PyList(r.xs) ELSE PyTuple(r.xs))
      [] node.tag = "IfExp" ->
            LET t == EvalNode(node.kids[1], locals)
            IN  IF ~t.ok THEN EFail
                ELSE EvalNode(node.kids[IF Truthy(t.v) THEN 2 ELSE 3], locals)
      \* calls, attributes, subscripts, lambdas and the other displays are
      \* not evaluated here: _check_node rejects them before eval is reached
      [] OTHER -> EFail

(***************************************************************************)
(* safe_eval                                                               *)
(***************************************************************************)
_ALLOWED_NODES ==
    {"Expression", "BinOp", "UnaryOp", "Num", "Constant", "Name",
     "Load", "Add", "Sub", "Mult", "Div", "Mod", "Pow",
     "Compare", "Eq", "NotEq", "Lt", "LtE", "Gt", "GtE",
     "BoolOp", "And", "Or", "Not", "USub", "UAdd",
     "List", "Tuple"}

\* _check_node: TRUE when the node and every node below it is allowed
\* (the code raises ValueError at the first one that is not)
\* a check of the root node and its children only
_check_node_top(node) ==
    /\ node.tag \in _ALLOWED_NODES
    /\ \A i \in 1..Len(node.kids) : node.kids[i].tag \in _ALLOWED_NODES

RECURSIVE _check_node(_)
_check_node(node) ==
    /\ node.tag \in _ALLOWED_NODES
    /\ \A i \in 1..Len(node.kids) : _check_node(node.kids[i])

trueText == <<"t", "r", "u", "e">>

falseText == <<"f", "a", "l", "s", "e">>

\* a binding that tries float() on every string, dotted or not
CoerceLocalAnyFloat(val) ==
    IF ~IsStr(val) THEN val
    ELSE LET low == LowerText(Strip(val.s))
             f   == FloatParse(val.s)
             n   == IntParse(val.s)
         IN  IF low \in {trueText, falseText} THEN PyBool(low = trueText)
             ELSE IF n.ok THEN n.v
             ELSE IF f.ok THEN f.v
             ELSE val

\* the binding of one snapshot value in safe_locals: a string that reads
\* true/false becomes a bool, one with a dot that float() accepts a float,
\* one that int() accepts an int; anything else is bound unchanged
CoerceLocal(val) ==
    IF ~IsStr(val) THEN val
    ELSE LET low == LowerText(Strip(val.s))
             f   == FloatParse(val.s)
             n   == IntParse(val.s)
         IN  IF low \in {trueText, falseText} THEN PyBool(low = trueText)
             ELSE IF HasChar(val.s, ".") THEN (IF f.ok THEN f.v ELSE val)
             ELSE IF n.ok THEN n.v
             ELSE val

\* safe_locals built from vars_map
SafeLocals(vars_map) == [k \in DOMAIN vars_map |-> CoerceLocal(vars_map[k])]

\* the outcome of safe_eval: a value, or the ValueError raised and the
\* stage that raised it ("type", "parse", "check", "eval")
SOk(v) == [ok |-> TRUE, v |-> v, err |-> "none"]

SErr(stage) == [ok |-> FALSE, v |-> PyNone, err |-> stage]

\* eval of the compiled tree under safe_locals
EvalChecked(node, vars_map) ==
    LET Evaluated(r) == IF ~r.ok THEN SErr("eval") ELSE SOk(r.v)
    IN  Evaluated(EvalNode(node, SafeLocals(vars_map)))

\* safe_eval from ast.parse on
EvalText(text, vars_map) ==
    LET Parsed(ast) ==
            IF ~ast.ok THEN SErr("parse")
            ELSE IF ~_check_node(ast.node) THEN SErr("check")
            ELSE EvalChecked(ast.node, vars_map)
    IN  Parsed(AstParse(text))

\* a safe_eval that interpolates the expression itself
safe_eval_interpolating(expr, vars_map) ==
    LET Stripped(text) ==
            IF text = <<>> THEN SOk(PyBool(FALSE)) ELSE EvalText(text, vars_map)
    IN  IF ~IsStr(expr) THEN SErr("type")
        ELSE Stripped(Strip(interpolate(expr, vars_map).s))

\* a safe_eval without the guard for the empty expression
safe_eval_unguarded(expr, vars_map) ==
    IF ~IsStr(expr) THEN SErr("type") ELSE EvalText(Strip(expr.s), vars_map)

safe_eval(expr, vars_map) ==
    LET Stripped(text) ==
            IF text = <<>> THEN SOk(PyBool(FALSE)) ELSE EvalText(text, vars_map)
    IN  IF ~IsStr(expr) THEN SErr("type") ELSE Stripped(Strip(expr.s))

(***************************************************************************)
(* The legacy patterns, matched with re.match (anchored at the start only) *)
(***************************************************************************)
setText == <<"s", "e", "t">>

progressText == <<"p", "r", "o", "g", "r", "e", "s", "s">>

gotoText == <<"g", "o", "t", "o">>

ifText == <<"i", "f">>

\* the character class [0-9\.\-]
NumChars == Digits \cup {".", "-"}

NoMatch == [ok |-> FALSE, g |-> <<>>, next |-> 0]

\* \s*kw\( with re.I: the index after the bracket, or 0
LegacyHead(s, kw) ==
    LET i == SkipClass(s, 1, Spaces)
    IN  IF MatchLit(s, i, kw \o <<"(">>, TRUE) THEN i + Len(kw) + 1 ELSE 0

\* \s*([^,]+)\s*, from index i: the group runs up to the first comma; the
\* greedy \s* before it takes the leading white space but leaves the group
\* at least one character
FirstArg(s, i) ==
    LET C == {c \in i..Len(s) : s[c] = ","}
        c == CHOOSE k \in C : \A l \in C : k <= l
        a == SkipClass(s, i, Spaces)
    IN  IF C = {} THEN NoMatch
        ELSE IF c = i THEN NoMatch
        ELSE [ok |-> TRUE, g |-> Slice(s, IF a >= c THEN c - 1 ELSE a, c - 1), next |-> c + 1]

\* is there \s*\) at index j
ClosesAt(s, j) ==
    LET k == SkipClass(s, j, Spaces) IN k <= Len(s) /\ s[k] = ")"

\* \s*(.+)\s*\) from index i: the dot does not match a line feed; the
\* leading \s* is as long as a match allows, then the group is
LastArg(s, i) ==
    LET s0      == SkipClass(s, i, Spaces)
        Ends(a) == {p \in a..Len(s) : /\ \A q \in a..p : s[q] # "\n"
                                      /\ ClosesAt(s, p + 1)}
        Starts  == {a \in i..s0 : Ends(a) # {}}
        a       == CHOOSE k \in Starts : \A l \in Starts : k >= l
        p       == CHOOSE k \in Ends(a) : \A l \in Ends(a) : k >= l
    IN  IF Starts = {} THEN NoMatch
        ELSE [ok |-> TRUE, g |-> Slice(s, a, p), next |-> p + 1]

\* \s*([0-9\.\-]+)\s*\) from index i
NumArg(s, i) ==
    LET j == SkipClass(s, i, Spaces)
        k == SkipClass(s, j, NumChars)
    IN  IF k > j /\ ClosesAt(s, k)
        THEN [ok |-> TRUE, g |-> Slice(s, j, k - 1), next |-> k]
        ELSE NoMatch

\* _LEGACY_SET_RE.match(action): groups 1 and 2
_LEGACY_SET_RE(s) ==
    LET Groups(g1, g2) == [ok |-> g2.ok, g1 |-> g1.g, g2 |-> g2.g]
        First(g1) == Groups(g1, IF g1.ok THEN LastArg(s, g1.next) ELSE NoMatch)
        Opened(h) == First(IF h = 0 THEN NoMatch ELSE FirstArg(s, h))
    IN  Opened(LegacyHead(s, setText))

\* _LEGACY_PROGRESS_RE.match(action)
_LEGACY_PROGRESS_RE(s) ==
    LET Groups(g1, g2) == [ok |-> g2.ok, g1 |-> g1.g, g2 |-> g2.g]
        First(g1) == Groups(g1, IF g1.ok THEN NumArg(s, g1.next) ELSE NoMatch)
        Opened(h) == First(IF h = 0 THEN NoMatch ELSE FirstArg(s, h))
    IN  Opened(LegacyHead(s, progressText))

\* _LEGACY_GOTO_RE.match(action)
_LEGACY_GOTO_RE(s) ==
    LET Groups(g1) == [ok |-> g1.ok, g1 |-> g1.g, g2 |-> <<>>]
        Opened(h) == Groups(IF h = 0 THEN NoMatch ELSE LastArg(s, h))
    IN  Opened(LegacyHead(s, gotoText))

(***************************************************************************)
(* execute_action                                                          *)
(*                                                                         *)
(* One invocation of execute_action is one step of a machine               *)
(*   [stack, trace, store, status, decided]                                *)
(* stack:   the invocations still to run, the next one first (the          *)
(*          recursion of the `if` branch and its for loop)                 *)
(* trace:   the host callbacks invoked so far, with their arguments        *)
(* store:   the host's variables: what get_vars() returns, and what the    *)
(*          host's set_var / set_progress write (viewer _set_var,          *)
(*          _set_progress, _get_vars_map)                                  *)
(* status:  "running", "returned", or "raised" (an exception left          *)
(*          execute_action and unwound every enclosing invocation)         *)
(* decided: the conditions evaluated so far: the `if` action, its           *)
(*          condition, the outcome and the length of the trace at that     *)
(*          moment                                                         *)
(***************************************************************************)
CallbackNames == {"show_scene", "set_var", "set_progress", "get_vars", "handle_action"}

CallRec(cb, args) == [cb |-> cb, args |-> args]

\* the host side of a callback: set_var and set_progress keep the value
\* handed to them under the name (self.vars[name] = value)
HostApply(store, cb, args) ==
    IF cb \in {"set_var", "set_progress"} /\ IsStr(args[1])
    THEN [k \in DOMAIN store \cup {args[1].s} |->
             IF k = args[1].s THEN args[2] ELSE store[k]]
    ELSE store

\* a context that holds this name has a set_progress that raises whenever
\* it is invoked
faultyProgress == "set_progress_raises"

\* the invocation returns
Pop(m) == [m EXCEPT !.stack = Tail(@), !.depths = Tail(@)]

\* a callback is invoked, and what it writes does not reach the snapshots
\* taken later in the same call
InvokeUnseen(m, cb, args) == [m EXCEPT !.trace = Append(@, CallRec(cb, args))]

\* a callback is invoked
Invoke(m, cb, args) ==
    [m EXCEPT !.trace = Append(@, CallRec(cb, args)),
              !.store = HostApply(@, cb, args)]

\* an exception propagates to the caller of the outermost execute_action
Raise(m) == [m EXCEPT !.stack = <<>>, !.depths = <<>>, !.status = "raised"]

\* a callback is invoked and raises: the call is made, the host's store is
\* not written
Attempt(m, cb, args) == [m EXCEPT !.trace = Append(@, CallRec(cb, args))]

\* context.get("get_vars")() when present
GetVars(m, ctx) == IF "get_vars" \in ctx THEN m.store ELSE <<>>

\* which legacy pattern a string action matches first
LegacyKind(s) ==
    CASE _LEGACY_SET_RE(s).ok -> "legacy_set"
      [] _LEGACY_PROGRESS_RE(s).ok -> "legacy_progress"
      [] _LEGACY_GOTO_RE(s).ok -> "legacy_goto"
      [] OTHER -> "legacy_none"

\* the branch of execute_action that an action takes
ActionKind(a) ==
    CASE ~Truthy(a) -> "empty"
      [] IsStr(a) -> LegacyKind(a.s)
      [] a.py # "dict" -> "not_dict"
      [] Get(a, "type") = PyStr(gotoText) -> "goto"
      [] Get(a, "type") = PyStr(setText) -> "set"
      [] Get(a, "type") = PyStr(progressText) -> "progress"
      [] Get(a, "type") = PyStr(ifText) -> "if"
      [] OTHER -> "unknown"

\* legacy set(k, v): the value is passed as written, quotes stripped
DoLegacySet(m, a, ctx) ==
    LET Matched(g) ==
            Invoke(Pop(m), "set_var",
                   <<PyStr(Strip(g.g1)),
                     PyStr(StripChars(StripChars(Strip(g.g2), {"\""}), {"'"}))>>)
    IN  IF "set_var" \in ctx THEN Matched(_LEGACY_SET_RE(a.s)) ELSE Pop(m)

\* legacy progress(name, v): float(v) is not guarded
DoLegacyProgress(m, a, ctx) ==
    LET Converted(name, val) ==
            IF ~val.ok THEN Raise(m)
            ELSE IF "set_progress" \notin ctx THEN Pop(m)
            ELSE IF faultyProgress \in ctx
            THEN Raise(Attempt(m, "set_progress", <<PyStr(name), val.v>>))
            ELSE Invoke(Pop(m), "set_progress", <<PyStr(name), val.v>>)
        Matched(g) == Converted(Strip(g.g1), FloatParse(g.g2))
    IN  Matched(_LEGACY_PROGRESS_RE(a.s))

\* legacy goto(target)
DoLegacyGoto(m, a, ctx) ==
    IF "show_scene" \in ctx
    THEN Invoke(Pop(m), "show_scene", <<PyStr(Strip(_LEGACY_GOTO_RE(a.s).g1))>>)
    ELSE Pop(m)

\* a goto that interpolates its target
DoGotoInterpolating(m, a, ctx) ==
    LET target == Get(a, "target")
    IN  IF Truthy(target) /\ "show_scene" \in ctx
        THEN Invoke(Pop(m), "show_scene", <<interpolate(target, GetVars(m, ctx))>>)
        ELSE Pop(m)

\* type == "goto"
DoGoto(m, a, ctx) ==
    LET target == Get(a, "target")
    IN  IF Truthy(target) /\ "show_scene" \in ctx
        THEN Invoke(Pop(m), "show_scene", <<target>>)
        ELSE Pop(m)

\* the value of a set / progress action passed on as written
InterpolatedValueRaw(m, raw, ctx) == raw

\* the value of a set / progress action: a string is interpolated when the
\* context has get_vars
InterpolatedValue(m, raw, ctx) ==
    IF IsStr(raw) /\ "get_vars" \in ctx
    THEN interpolate(raw, GetVars(m, ctx))
    ELSE raw

\* type == "set"
DoSet(m, a, ctx) ==
    LET var == Get(a, "var")
        val == InterpolatedValue(m, Get(a, "value"), ctx)
    IN  IF "set_var" \in ctx /\ var # PyNone
        THEN Invoke(Pop(m), "set_var", <<var, val>>)
        ELSE Pop(m)

\* a progress whose value float() rejects makes no call
DoProgressDropping(m, a, ctx) ==
    LET Converted(target, val, f) ==
            IF f.ok THEN Invoke(Pop(m), "set_progress", <<target, f.v>>) ELSE Pop(m)
        Valued(target, val) ==
            IF "set_progress" \in ctx /\ Truthy(target)
            THEN Converted(target, val, ToFloat(val))
            ELSE Pop(m)
    IN  Valued(IF Truthy(Get(a, "target")) THEN Get(a, "target") ELSE Get(a, "var"),
               InterpolatedValue(m, GetDefault(a, "value", PyInt(0)), ctx))

\* type == "progress": float(val), or val itself when float() fails; the
\* `except` also catches what the setter raises, and calls the setter again
DoProgress(m, a, ctx) ==
    LET Converted(target, val, f) ==
            IF faultyProgress \notin ctx
            THEN Invoke(Pop(m), "set_progress", <<target, IF f.ok THEN f.v ELSE val>>)
            ELSE IF f.ok
            THEN Raise(Attempt(Attempt(m, "set_progress", <<target, f.v>>),
                               "set_progress", <<target, val>>))
            ELSE Raise(Attempt(m, "set_progress", <<target, val>>))
        Valued(target, val) ==
            IF "set_progress" \in ctx /\ Truthy(target)
            THEN Converted(target, val, ToFloat(val))
            ELSE Pop(m)
    IN  Valued(IF Truthy(Get(a, "target")) THEN Get(a, "target") ELSE Get(a, "var"),
               InterpolatedValue(m, GetDefault(a, "value", PyInt(0)), ctx))

\* a condition whose evaluation fails counts as true
CondHoldsOnFailure(cond, vars_map) ==
    LET Held(r) == IF r.ok THEN Truthy(r.v) ELSE TRUE
    IN  Held(safe_eval(interpolate(cond, vars_map), vars_map))

\* the truth of the condition of an `if`: a failure of safe_eval is False
CondHolds(cond, vars_map) ==
    LET Held(r) == IF r.ok THEN Truthy(r.v) ELSE FALSE
    IN  Held(safe_eval(interpolate(cond, vars_map), vars_map))

\* the invocations a chosen branch leads to: one for a dict, one per
\* element for a list, none for anything else
BranchActions(branch) ==
    CASE branch.py = "dict" -> <<branch>>
      [] branch.py = "list" -> branch.xs
      [] OTHER -> <<>>

\* the recursion depths of the invocations a branch makes, one below d
Deeper(xs, d) == [i \in 1..Len(xs) |-> d + 1]

\* an `if` that runs its chosen branch twice
DoIfTwice(m, a, ctx) ==
    LET Chosen(ok) == BranchActions(IF ok THEN Get(a, "then") ELSE Get(a, "else"))
        Branch(cond, ok) ==
            [m EXCEPT !.stack = Chosen(ok) \o Chosen(ok) \o Tail(@),
                      !.depths = Deeper(Chosen(ok) \o Chosen(ok), Head(@)) \o Tail(@),
                      !.decided = Append(@, [a |-> a, cond |-> cond, ok |-> ok,
                                             at |-> Len(m.trace)])]
    IN  Branch(GetDefault(a, "condition", PyStr(<<>>)),
               CondHolds(GetDefault(a, "condition", PyStr(<<>>)), GetVars(m, ctx)))

\* an `if` that runs the else branch after the then branch
DoIfBoth(m, a, ctx) ==
    [m EXCEPT !.stack = BranchActions(Get(a, "then")) \o BranchActions(Get(a, "else"))
                        \o Tail(@),
              !.depths = Deeper(BranchActions(Get(a, "then"))
                                \o BranchActions(Get(a, "else")), Head(@)) \o Tail(@),
              !.decided = Append(@, [a |-> a,
                                     cond |-> GetDefault(a, "condition", PyStr(<<>>)),
                                     ok |-> TRUE, at |-> Len(m.trace)])]

\* type == "if"
DoIf(m, a, ctx) ==
    LET Branch(cond, ok) ==
            [m EXCEPT !.stack = BranchActions(IF ok THEN Get(a, "then")
                                              ELSE Get(a, "else")) \o Tail(@),
                      !.depths = Deeper(BranchActions(IF ok THEN Get(a, "then")
                                                      ELSE Get(a, "else")), Head(@))
                                 \o Tail(@),
                      !.decided = Append(@, [a |-> a, cond |-> cond, ok |-> ok,
                                             at |-> Len(m.trace)])]
    IN  Branch(GetDefault(a, "condition", PyStr(<<>>)),
               CondHolds(GetDefault(a, "condition", PyStr(<<>>)), GetVars(m, ctx)))

\* any other type: handed to handle_action when the context has one
DoUnknown(m, a, ctx) ==
    IF "handle_action" \in ctx
    THEN Invoke(Pop(m), "handle_action", <<a>>)
    ELSE Pop(m)

\* a text that matches no legacy pattern is handed to handle_action
DoLegacyNoneForwarding(m, a, ctx) ==
    IF "handle_action" \in ctx
    THEN Invoke(Pop(m), "handle_action", <<a>>)
    ELSE Pop(m)

\* a text that matches no legacy pattern: the bare `return`
DoLegacyNone(m, a, ctx) == Pop(m)

\* one invocation of execute_action on the action on top of the stack
DoAction(m, ctx) ==
    LET Do(a, k) ==
            CASE k = "legacy_set" -> DoLegacySet(m, a, ctx)
              [] k = "legacy_progress" -> DoLegacyProgress(m, a, ctx)
              [] k = "legacy_goto" -> DoLegacyGoto(m, a, ctx)
              [] k = "legacy_none" -> DoLegacyNone(m, a, ctx)
              [] k = "goto" -> DoGoto(m, a, ctx)
              [] k = "set" -> DoSet(m, a, ctx)
              [] k = "progress" -> DoProgress(m, a, ctx)
              [] k = "if" -> DoIf(m, a, ctx)
              [] k = "unknown" -> DoUnknown(m, a, ctx)
              [] OTHER -> Pop(m)
    IN  Do(Head(m.stack), ActionKind(Head(m.stack)))

\* the outermost execute_action returns when nothing is left to run
Settle(m) ==
    IF m.status = "running" /\ m.stack = <<>>
    THEN [m EXCEPT !.status = "returned"]
    ELSE m

\* the machine at the start of execute_action(a, ctx) on a store
StartOf(a, store) ==
    [stack |-> <<a>>, depths |-> <<1>>, trace |-> <<>>, store |-> store,
     status |-> "running", decided |-> <<>>]

\* execute_action run to its end
RECURSIVE RunFrom(_, _)
RunFrom(m, ctx) ==
    IF m.status # "running" THEN m ELSE RunFrom(Settle(DoAction(m, ctx)), ctx)

execute_action(a, ctx, store) == RunFrom(StartOf(a, store), ctx)

(***************************************************************************)
(* Inputs: the texts, actions, expressions, contexts and initial stores    *)
(* the host draws from                                                     *)
(***************************************************************************)
\* "n"
nName == <<"n">>

\* "x"
xName == <<"x">>

\* "y"
yName == <<"y">>

\* "bar"
barName == <<"b", "a", "r">>

\* "A"
sceneA == <<"A">>

\* "B"
sceneB == <<"B">>

\* "Hello"
sceneHello == <<"H", "e", "l", "l", "o">>

\* "a)b"
sceneParen == <<"a", ")", "b">>

\* "a\nb"
sceneTwoLines == <<"a", "\n", "b">>

\* "1"
txtOne == <<"1">>

\* "-1"
txtMinusOne == <<"-", "1">>

\* "hi"
txtHi == <<"h", "i">>

\* ""hi""
txtQuotedHi == <<"\"", "h", "i", "\"">>

\* "${n}"
txtTokenN == <<"$", "{", "n", "}">>

\* "a"
txtA == <<"a">>

\* "a!"
txtABang == <<"a", "!">>

\* "${x}!"
txtTokenXBang == <<"$", "{", "x", "}", "!">>

\* "${x}"
txtTokenX == <<"$", "{", "x", "}">>

\* "${missing}"
txtTokenMissing == <<"$", "{", "m", "i", "s", "s", "i", "n", "g", "}">>

\* "${}"
txtTokenEmpty == <<"$", "{", "}">>

\* "${a-b}"
txtTokenDash == <<"$", "{", "a", "-", "b", "}">>

\* "a${x}b${n}c"
txtTwoTokens == <<"a", "$", "{", "x", "}", "b", "$", "{", "n", "}", "c">>

\* "${${n}}"
txtTokenInToken == <<"$", "{", "$", "{", "n", "}", "}">>

\* "$${n_1}${n"
txtTokenOdd == <<"$", "$", "{", "n", "_", "1", "}", "$", "{", "n">>

\* "7"
txtSeven == <<"7">>

\* "1e3", a float that has no dot
txtSci == <<"1", "e", "3">>

\* " True ", a Boolean after strip().lower()
txtPaddedTrue == <<" ", "T", "r", "u", "e", " ">>

\* "abc"
txtAbc == <<"a", "b", "c">>

\* "1.2.3"
txtDotted == <<"1", ".", "2", ".", "3">>

\* "2.5"
txtTwoHalf == <<"2", ".", "5">>

\* "${n} > 0"
condNPositive == <<"$", "{", "n", "}", " ", ">", " ", "0">>

\* "${n} >"
condDangling == <<"$", "{", "n", "}", " ", ">">>

\* "f(${n})"
condCall == <<"f", "(", "$", "{", "n", "}", ")">>

\* "q > 0"
condUnbound == <<"q", " ", ">", " ", "0">>

\* "'a' < 1"
condMismatch == <<"'", "a", "'", " ", "<", " ", "1">>

\* "1 / 0"
condDivZero == <<"1", " ", "/", " ", "0">>

\* ""
condEmpty == <<>>

\* " \t\n"
condBlank == <<" ", "\t", "\n">>

\* "1 > 0"
condTrue == <<"1", " ", ">", " ", "0">>

\* "n > 0"
condNameN == <<"n", " ", ">", " ", "0">>

\* "progress(bar, 1.2.3)"
legacyProgressDotted ==
    <<"p", "r", "o", "g", "r", "e", "s", "s", "(", "b", "a", "r", ",",
      " ", "1", ".", "2", ".", "3", ")">>

\* "progress(bar, 1-2)"
legacyProgressDash ==
    <<"p", "r", "o", "g", "r", "e", "s", "s", "(", "b", "a", "r", ",",
      " ", "1", "-", "2", ")">>

\* "progress(bar, 5)"
legacyProgressFive ==
    <<"p", "r", "o", "g", "r", "e", "s", "s", "(", "b", "a", "r", ",",
      " ", "5", ")">>

\* "set(x, ${n})"
legacySetToken ==
    <<"s", "e", "t", "(", "x", ",", " ", "$", "{", "n", "}", ")">>

\* "set(x, hi)"
legacySetHi == <<"s", "e", "t", "(", "x", ",", " ", "h", "i", ")">>

\* "set(x, "hi")"
legacySetQuoted ==
    <<"s", "e", "t", "(", "x", ",", " ", "\"", "h", "i", "\"", ")">>

\* "SET( x , 1 ) "
legacySetSpaced ==
    <<"S", "E", "T", "(", " ", "x", " ", ",", " ", "1", " ", ")", " ">>

\* "goto(Hello)"
legacyGotoHello == <<"g", "o", "t", "o", "(", "H", "e", "l", "l", "o", ")">>

\* "GOTO(Hello)"
legacyGotoUpper == <<"G", "O", "T", "O", "(", "H", "e", "l", "l", "o", ")">>

\* "GoTo(a)b)"
legacyGotoMixed == <<"G", "o", "T", "o", "(", "a", ")", "b", ")">>

\* "goto(a\nb)"
legacyGotoTwoLines == <<"g", "o", "t", "o", "(", "a", "\n", "b", ")">>

\* "goto(A)"
legacyGotoA == <<"g", "o", "t", "o", "(", "A", ")">>

\* "goto( )"
legacyGotoBlank == <<"g", "o", "t", "o", "(", " ", ")">>

\* "nothing(1)"
legacyOther == <<"n", "o", "t", "h", "i", "n", "g", "(", "1", ")">>

\* "xgoto(A)"
legacyPrefixed == <<"x", "g", "o", "t", "o", "(", "A", ")">>

\* "set(x)"
legacyNoComma == <<"s", "e", "t", "(", "x", ")">>

\* "progress(bar, x)"
legacyProgressWord ==
    <<"p", "r", "o", "g", "r", "e", "s", "s", "(", "b", "a", "r", ",",
      " ", "x", ")">>

\* "1 + 2 * 3"
exprArith == <<"1", " ", "+", " ", "2", " ", "*", " ", "3">>

\* "x > 3"
exprXGt3 == <<"x", " ", ">", " ", "3">>

\* x
exprNameX == <<"x">>

\* x == 1000
exprXEq1000 == <<"x", " ", "=", "=", " ", "1", "0", "0", "0">>

\* "${x} > 3"
exprTokenXGt3 == <<"$", "{", "x", "}", " ", ">", " ", "3">>

\* "__import__('os')"
exprImport ==
    <<"_", "_", "i", "m", "p", "o", "r", "t", "_", "_", "(", "'", "o",
      "s", "'", ")">>

\* "[1, f(2)]"
exprCallInList == <<"[", "1", ",", " ", "f", "(", "2", ")", "]">>

\* "(1, [n.real])"
exprAttrDeep ==
    <<"(", "1", ",", " ", "[", "n", ".", "r", "e", "a", "l", "]", ")">>

\* "n[0] + 1"
exprSubscript == <<"n", "[", "0", "]", " ", "+", " ", "1">>

\* "lambda: 1"
exprLambda == <<"l", "a", "m", "b", "d", "a", ":", " ", "1">>

\* "1 if n else 2"
exprIfExp ==
    <<"1", " ", "i", "f", " ", "n", " ", "e", "l", "s", "e", " ", "2">>

\* "[i for i in n]"
exprListComp ==
    <<"[", "i", " ", "f", "o", "r", " ", "i", " ", "i", "n", " ", "n",
      "]">>

\* "7 // 2"
exprFloorDiv == <<"7", " ", "/", "/", " ", "2">>

\* "n & 1"
exprBitAnd == <<"n", " ", "&", " ", "1">>

\* "1 in [1]"
exprIn == <<"1", " ", "i", "n", " ", "[", "1", "]">>

\* "n is n"
exprIs == <<"n", " ", "i", "s", " ", "n">>

\* "not ~n"
exprInvert == <<"n", "o", "t", " ", "~", "n">>

\* "1 + f(2)"
exprCallOperand == <<"1", " ", "+", " ", "f", "(", "2", ")">>

\* "q"
exprUnbound == <<"q">>

\* "len"
exprLen == <<"l", "e", "n">>

\* "n + q"
exprUnboundSum == <<"n", " ", "+", " ", "q">>

\* "__builtins__"
exprBuiltins == <<"_", "_", "b", "u", "i", "l", "t", "i", "n", "s", "_", "_">>

\* "0 and q"
exprShortCircuit == <<"0", " ", "a", "n", "d", " ", "q">>

\* "'a' + 'b'"
exprStrAdd == <<"'", "a", "'", " ", "+", " ", "'", "b", "'">>

\* "'a' * 3"
exprStrMul == <<"'", "a", "'", " ", "*", " ", "3">>

\* "b'a' + b'b'"
exprBytesAdd == <<"b", "'", "a", "'", " ", "+", " ", "b", "'", "b", "'">>

\* "'a' + 1"
exprStrPlusInt == <<"'", "a", "'", " ", "+", " ", "1">>

\* "'a' == 'a'"
exprStrEq == <<"'", "a", "'", " ", "=", "=", " ", "'", "a", "'">>

\* "1 +"
exprDangling == <<"1", " ", "+">>

\* "(n, 2.5)"
exprTuple == <<"(", "n", ",", " ", "2", ".", "5", ")">>

customText == <<"c", "u", "s", "t", "o", "m">>

\* {type: goto, target: t}
Goto(t) == PyDict([type |-> PyStr(gotoText), target |-> PyStr(t)])

\* {type: set, var: n, value: v}
SetVar(n, v) == PyDict([type |-> PyStr(setText), var |-> PyStr(n), value |-> v])

\* {type: progress, target: n, value: v}
SetProgress(n, v) ==
    PyDict([type |-> PyStr(progressText), target |-> PyStr(n), value |-> v])

\* {type: if, condition: c, then: t, else: e}
Conditional(c, t, e) ==
    PyDict([type |-> PyStr(ifText), condition |-> c, then |-> t, else |-> e])

\* {type: if, then: t, else: e}: no condition key
ConditionalNoCond(t, e) == PyDict([type |-> PyStr(ifText), then |-> t, else |-> e])

\* {type: custom}
Unknown == PyDict([type |-> PyStr(customText)])

\* {type: progress, var: n}: the target under `var`, no value
ProgressByVar(n) == PyDict([type |-> PyStr(progressText), var |-> PyStr(n)])

EmptyDict == [py |-> "dict", d |-> [k \in {} |-> PyNone]]

\* the Conditional of the sign example: n := "-1" when n > 0, else n := "1"
CondSign ==
    Conditional(PyStr(condNPositive),
                SetVar(nName, PyStr(txtMinusOne)), SetVar(nName, PyStr(txtOne)))

\* conditions that fail in interpolation or in safe_eval: a parse error, a
\* disallowed construct, an unbound identifier, a type mismatch, a division
\* by zero, and conditions that are not strings
FailingConds ==
    {PyStr(condDangling), PyStr(condCall), PyStr(condUnbound),
     PyStr(condMismatch), PyStr(condDivZero), PyNone, PyInt(5)}

\* conditions that are empty or white space
EmptyConds == {PyStr(condEmpty), PyStr(condBlank)}

OtherConds == {PyStr(condTrue), PyStr(condNameN), PyStr(condNPositive)}

\* if <c> then goto A else goto B
Choice(c) == Conditional(c, Goto(sceneA), Goto(sceneB))

\* a sequence branch whose first element is a legacy progress that float()
\* rejects, and its structured counterpart
SeqLegacyDotted ==
    Conditional(PyStr(condTrue),
                PyList(<<PyStr(legacyProgressDotted), Goto(sceneA)>>), PyNone)

SeqStructuredDotted ==
    Conditional(PyStr(condTrue),
                PyList(<<SetProgress(barName, PyStr(txtDotted)), Goto(sceneA)>>), PyNone)

\* a sequence branch that writes n and then branches on n again
SeqNested ==
    Conditional(PyStr(condNPositive),
                PyList(<<SetVar(nName, PyStr(txtMinusOne)), Choice(PyStr(condNPositive))>>),
                Goto(sceneB))

\* a sequence branch that appends "!" to x twice
SeqSetTwice ==
    Conditional(PyStr(condTrue),
                PyList(<<SetVar(xName, PyStr(txtTokenXBang)),
                         SetVar(xName, PyStr(txtTokenXBang))>>), PyNone)

\* a legacy text as the branch itself, and as the one element of a sequence
BranchLegacySingle == Conditional(PyStr(condTrue), PyStr(legacyGotoA), PyNone)

BranchLegacyList ==
    Conditional(PyStr(condTrue), PyList(<<PyStr(legacyGotoA)>>), PyNone)

Conditionals ==
    {Choice(c) : c \in FailingConds \cup EmptyConds \cup OtherConds}
    \cup {CondSign, ConditionalNoCond(Goto(sceneA), Goto(sceneB)),
          SeqLegacyDotted, SeqStructuredDotted, SeqNested, SeqSetTwice,
          BranchLegacySingle, BranchLegacyList}

LegacySets == {legacySetToken, legacySetHi, legacySetQuoted, legacySetSpaced}

LegacyProgresses == {legacyProgressDotted, legacyProgressDash, legacyProgressFive}

LegacyGotos ==
    {legacyGotoHello, legacyGotoUpper, legacyGotoMixed, legacyGotoTwoLines,
     legacyGotoA, legacyGotoBlank}

\* texts that are no legacy action
LegacyOthers == {legacyOther, legacyPrefixed, legacyNoComma, legacyProgressWord}

LegacyActions ==
    {PyStr(s) : s \in LegacySets \cup LegacyProgresses \cup LegacyGotos \cup LegacyOthers}

SceneNames == {sceneA, sceneB, sceneHello, sceneParen, sceneTwoLines}

SetValues ==
    {PyStr(txtTokenN), PyStr(txtTokenXBang), PyStr(txtHi), PyStr(txtQuotedHi),
     PyStr(txtOne), PyInt(5)}

ProgressValues == {PyStr(txtDotted), PyStr(txtTwoHalf), PyStr(txtTokenN), PyInt(7)}

StructuredActions ==
    {Goto(t) : t \in SceneNames \cup {<<>>, txtTokenN}}
    \cup {SetVar(xName, v) : v \in SetValues}
    \cup {SetProgress(barName, v) : v \in ProgressValues}
    \cup {ProgressByVar(barName)}
    \cup {Unknown}

\* None, "", {}: nothing to do; a number and a list: not an action
OddActions == {PyNone, PyStr(<<>>), EmptyDict, PyInt(5), PyList(<<Goto(sceneA)>>)}

Actions == Conditionals \cup LegacyActions \cup StructuredActions \cup OddActions

\* the contexts a host passes: every callback, every callback but one, none
Contexts ==
    {CallbackNames, {}, CallbackNames \cup {faultyProgress}}
    \cup {CallbackNames \ {c} : c \in CallbackNames}

\* expressions a host evaluates directly
Exprs ==
    {PyStr(s) : s \in
        {exprArith, exprXGt3, exprNameX, exprXEq1000, exprTokenXGt3, condNPositive,
         condNameN,
         exprImport, exprCallInList, exprAttrDeep, exprSubscript, exprLambda,
         exprIfExp, exprListComp, exprFloorDiv, exprBitAnd, exprIn, exprIs,
         exprInvert, exprCallOperand,
         exprUnbound, exprLen, exprUnboundSum, exprBuiltins, exprShortCircuit,
         exprStrAdd, exprStrMul, exprBytesAdd, exprStrPlusInt, exprStrEq,
         exprDangling, exprTuple, condDivZero, condMismatch,
         condEmpty, condBlank}}
    \cup {PyInt(5)}

\* a ui element {type: label}, one without a type, and a valid scene
ItemLabel == PyDict([type |-> PyStr(<<"l", "a", "b", "e", "l">>)])

ItemNoType == PyDict([text |-> PyStr(txtHi)])

SceneValid == PyDict([ui |-> PyList(<<ItemLabel>>)])

\* a scene that is no mapping, one without ui, one whose ui is None, one
\* whose ui is no list, and one whose ui has elements 0, 1 and 3 at fault
SceneNumber == PyInt(5)

SceneNoUi == PyDict([title |-> PyStr(txtHi)])

SceneUiNone == PyDict([ui |-> PyNone])

SceneUiText == PyDict([ui |-> PyStr(txtHi)])

SceneBadItems ==
    PyDict([ui |-> PyList(<<PyInt(5), EmptyDict, ItemLabel, ItemNoType>>)])

\* documents whose root or `scenes` is at fault, with faulty scenes inside
DocRootList == PyList(<<SceneNumber, SceneNoUi>>)

DocNoScenes == PyDict([start |-> PyStr(sceneA), ui |-> PyInt(5)])

DocScenesNone == PyDict([scenes |-> PyNone])

DocScenesList == PyDict([scenes |-> PyList(<<SceneNoUi, SceneNumber>>)])

\* scenes: {}
DocEmptyScenes == PyDict([scenes |-> OrderedDict(<<>>, [k \in {} |-> PyNone])])

\* a document without fault
DocValid ==
    PyDict([start |-> PyStr(sceneA),
            scenes |-> OrderedDict(<<"A", "B">>,
                                   [A |-> SceneValid, B |-> PyDict([ui |-> PyList(<<>>)])])])

\* faulty and sound scenes mixed, in two orders
DocMixed ==
    PyDict([scenes |->
        OrderedDict(<<"A", "B", "C", "D", "E", "F">>,
                    [A |-> SceneNumber, B |-> SceneNoUi, C |-> SceneUiText,
                     D |-> SceneBadItems, E |-> SceneUiNone, F |-> SceneValid])])

DocMixedBack ==
    PyDict([scenes |->
        OrderedDict(<<"F", "E", "D", "C", "B", "A">>,
                    [A |-> SceneNumber, B |-> SceneNoUi, C |-> SceneUiText,
                     D |-> SceneBadItems, E |-> SceneUiNone, F |-> SceneValid])])

\* only warnings
DocWarnOnly ==
    PyDict([scenes |-> OrderedDict(<<"B", "F">>, [B |-> SceneNoUi, F |-> SceneValid])])

\* documents a host validates
Documents ==
    {DocRootList, PyNone, PyStr(txtHi), DocNoScenes, DocScenesNone, DocScenesList,
     DocEmptyScenes, DocValid, DocMixed, DocMixedBack, DocWarnOnly}

\* templates a host interpolates directly
Templates ==
    {PyStr(s) : s \in
        {txtTokenX, txtTokenN, txtTokenMissing, txtTokenEmpty, txtTokenDash, txtTwoTokens,
         txtTokenInToken, txtTokenOdd, txtTokenXBang, txtHi, <<>>}}
    \cup {PyInt(42)}

EmptyStore == [k \in {} |-> PyNone]

\* the variable stores a host starts with
Snapshots ==
    {(nName :> PyInt(-5)) @@ (xName :> PyInt(5)),
     (nName :> PyInt(5)) @@ (xName :> PyStr(txtSeven)),
     (nName :> PyBool(TRUE)) @@ (xName :> PyNone),
     (nName :> PyFloat(25, 1)) @@ (xName :> PyStr(trueText)),
     (nName :> PyStr(txtTokenX)) @@ (xName :> PyStr(txtA)),
     (nName :> PyStr(xName)) @@ (xName :> PyStr(txtSci)),
     (nName :> PyStr(xName)) @@ (xName :> PyStr(txtTwoHalf)),
     (nName :> PyStr(txtPaddedTrue)) @@ (xName :> PyStr(txtDotted)),
     EmptyStore}

(***************************************************************************)
(* The host and the core as a state machine                                *)
(***************************************************************************)
\* the host makes at most MaxCalls calls into the core
MaxCalls == 1

VARIABLES
    calls,    \* the calls the host has made into the core
    store,    \* the host's variables
    ctx,      \* the callbacks of the context of the current execute call
    act,      \* the action of the current execute call
    snap,     \* the store when the current call started
    stack,    \* the execute_action invocations still to run
    trace,    \* the callbacks invoked by the current call
    status,   \* "idle", "running", "returned", "raised"
    decided,  \* the conditions the current call evaluated
    depths,   \* the recursion depth of each invocation still to run
    ev        \* the last direct call of safe_eval and its outcome

vars == <<calls, store, ctx, act, snap, stack, trace, status, decided, depths, ev>>

NoEval == [op |-> "none", expr |-> PyNone, pre |-> FALSE, out |-> SErr("none")]

Init ==
    /\ calls = 0
    /\ store \in Snapshots
    /\ ctx = {}
    /\ act = PyNone
    /\ snap = store
    /\ stack = <<>>
    /\ trace = <<>>
    /\ status = "idle"
    /\ decided = <<>>
    /\ depths = <<>>
    /\ ev = NoEval

\* the machine of the current call
Machine ==
    [stack |-> stack, depths |-> depths, trace |-> trace, store |-> store,
     status |-> status, decided |-> decided]

\* the current call moves to machine m
Becomes(m) ==
    /\ stack' = m.stack
    /\ trace' = m.trace
    /\ store' = m.store
    /\ status' = m.status
    /\ decided' = m.decided
    /\ depths' = m.depths
    /\ UNCHANGED <<calls, ctx, act, snap, ev>>

\* the host calls execute_action(a, c)
Call(a, c) ==
    /\ status # "running"
    /\ calls < MaxCalls
    /\ calls' = calls + 1
    /\ act' = a
    /\ ctx' = c
    /\ snap' = store
    /\ stack' = <<a>>
    /\ depths' = <<1>>
    /\ trace' = <<>>
    /\ status' = "running"
    /\ decided' = <<>>
    /\ ev' = NoEval
    /\ UNCHANGED store

\* the next pending invocation of execute_action is of kind k
Pending(k) == status = "running" /\ stack # <<>> /\ ActionKind(Head(stack)) = k

\* `if not action: return`
ExecEmpty == Pending("empty") /\ Becomes(Settle(Pop(Machine)))

\* `if not isinstance(action, dict): return`
ExecNotDict == Pending("not_dict") /\ Becomes(Settle(Pop(Machine)))

ExecLegacySet ==
    Pending("legacy_set") /\ Becomes(Settle(DoLegacySet(Machine, Head(stack), ctx)))

ExecLegacyProgress ==
    /\ Pending("legacy_progress")
    /\ Becomes(Settle(DoLegacyProgress(Machine, Head(stack), ctx)))

ExecLegacyGoto ==
    Pending("legacy_goto") /\ Becomes(Settle(DoLegacyGoto(Machine, Head(stack), ctx)))

\* a string that matches no legacy pattern
ExecLegacyNone ==
    Pending("legacy_none") /\ Becomes(Settle(DoLegacyNone(Machine, Head(stack), ctx)))

ExecGoto == Pending("goto") /\ Becomes(Settle(DoGoto(Machine, Head(stack), ctx)))

ExecSet == Pending("set") /\ Becomes(Settle(DoSet(Machine, Head(stack), ctx)))

ExecProgress ==
    Pending("progress") /\ Becomes(Settle(DoProgress(Machine, Head(stack), ctx)))

ExecIf == Pending("if") /\ Becomes(Settle(DoIf(Machine, Head(stack), ctx)))

ExecUnknown ==
    Pending("unknown") /\ Becomes(Settle(DoUnknown(Machine, Head(stack), ctx)))

\* one invocation of execute_action runs
Step ==
    \/ ExecEmpty
    \/ ExecNotDict
    \/ ExecLegacySet
    \/ ExecLegacyProgress
    \/ ExecLegacyGoto
    \/ ExecLegacyNone
    \/ ExecGoto
    \/ ExecSet
    \/ ExecProgress
    \/ ExecIf
    \/ ExecUnknown

\* the host calls safe_eval(e, get_vars()) directly, on the text as it is
\* or, as the docstring of safe_eval asks, on the interpolated text
Evaluate(e, pre) ==
    /\ status # "running"
    /\ calls < MaxCalls
    /\ calls' = calls + 1
    /\ ev' = [op |-> "safe_eval", expr |-> e, pre |-> pre,
              out |-> safe_eval(IF pre THEN interpolate(e, store) ELSE e, store)]
    /\ act' = PyNone
    /\ ctx' = {}
    /\ snap' = store
    /\ stack' = <<>>
    /\ depths' = <<>>
    /\ trace' = <<>>
    /\ status' = "idle"
    /\ decided' = <<>>
    /\ UNCHANGED store

\* the host calls interpolate(t, get_vars()) directly
Interpolate(t) ==
    /\ status # "running"
    /\ calls < MaxCalls
    /\ calls' = calls + 1
    /\ ev' = [op |-> "interpolate", expr |-> t, pre |-> FALSE,
              out |-> SOk(interpolate(t, store))]
    /\ act' = PyNone
    /\ ctx' = {}
    /\ snap' = store
    /\ stack' = <<>>
    /\ depths' = <<>>
    /\ trace' = <<>>
    /\ status' = "idle"
    /\ decided' = <<>>
    /\ UNCHANGED store

\* the host calls validate_ikp(doc)
Validate(doc) ==
    /\ status # "running"
    /\ calls < MaxCalls
    /\ calls' = calls + 1
    /\ ev' = [op |-> "validate", expr |-> doc, pre |-> FALSE,
              out |-> SOk(validate_ikp(doc))]
    /\ act' = PyNone
    /\ ctx' = {}
    /\ snap' = store
    /\ stack' = <<>>
    /\ depths' = <<>>
    /\ trace' = <<>>
    /\ status' = "idle"
    /\ decided' = <<>>
    /\ UNCHANGED store

Next ==
    \/ \E a \in Actions, c \in Contexts : Call(a, c)
    \/ ExecEmpty
    \/ ExecNotDict
    \/ ExecLegacySet
    \/ ExecLegacyProgress
    \/ ExecLegacyGoto
    \/ ExecLegacyNone
    \/ ExecGoto
    \/ ExecSet
    \/ ExecProgress
    \/ ExecIf
    \/ ExecUnknown
    \/ \E e \in Exprs, pre \in BOOLEAN : Evaluate(e, pre)
    \/ \E t \in Templates : Interpolate(t)
    \/ \E doc \in Documents : Validate(doc)

Spec == Init /\ [][Next]_vars

\* execute_action is sequential code: an invocation that is pending runs.
\* This is weak fairness of Step with its enabling condition written out: a
\* Step is possible exactly while the call is running (every kind of pending
\* invocation has its action, and a running call has a pending invocation).
StepFair == []<>(status # "running") \/ []<><<Step>>_vars

LiveSpec == Init /\ [][Next]_vars /\ StepFair

(***************************************************************************)
(* Properties                                                              *)
(***************************************************************************)
\* the current call of execute_action has ended
Done == status \in {"returned", "raised"}

\* the condition of an `if` action, "" when it has none
CondOf(a) == GetDefault(a, "condition", PyStr(<<>>))

\* what get_vars() gave when the current call started
SnapVars == IF "get_vars" \in ctx THEN snap ELSE <<>>

\* the run of branch b alone, from the store the current call started with
RunBranch(b) ==
    RunFrom(Settle([stack |-> BranchActions(b), depths |-> Deeper(BranchActions(b), 1),
                    trace |-> <<>>, store |-> snap, status |-> "running",
                    decided |-> <<>>]), ctx)

\* the current call ended as the run r did
EndedAs(r) == trace = r.trace /\ store = r.store /\ status = r.status

\* what a single navigate(t) call leaves in the trace
Navigated(t) ==
    IF "show_scene" \in ctx THEN <<CallRec("show_scene", <<PyStr(t)>>)>> ELSE <<>>

\* the text handed to the last direct safe_eval
EvInput == IF ev.pre THEN interpolate(ev.expr, store) ELSE ev.expr

\* the tree of the text handed to the last direct safe_eval
EvTree == AstParse(Strip(EvInput.s))

\* the last direct safe_eval was given a text that parses
EvParsed == ev.op = "safe_eval" /\ IsStr(EvInput) /\ EvTree.ok

\* the tags of all nodes of a tree
RECURSIVE Tags(_)
Tags(node) ==
    {node.tag} \cup UNION {Tags(node.kids[k]) : k \in 1..Len(node.kids)}

\* the identifiers a tree refers to
RECURSIVE NameIds(_)
NameIds(node) ==
    (IF node.tag = "Name" THEN {node.val.s} ELSE {})
    \cup UNION {NameIds(node.kids[k]) : k \in 1..Len(node.kids)}

\* does some arithmetic operator of the tree have a string or bytes literal
\* as an operand
RECURSIVE TextOperand(_)
TextOperand(node) ==
    \/ /\ node.tag \in {"BinOp", "UnaryOp"}
       /\ \E k \in 1..Len(node.kids) :
             /\ node.kids[k].tag = "Constant"
             /\ node.kids[k].val.py \in {"str", "bytes"}
    \/ \E k \in 1..Len(node.kids) : TextOperand(node.kids[k])

\* is the text made of white space only (the empty text included)
Blank(s) == \A k \in 1..Len(s) : s[k] \in Spaces

\* C1: a Conditional decides its condition once, before any callback of the
\* call is made, and the call then ends exactly as the run of the one chosen
\* branch alone; in the sign example (n = -5, condition "${n} > 0") the only
\* callback is set_var("n", "1").
C1_ConditionalDecidesOnce ==
    ActionKind(act) = "if" /\ Done =>
        /\ Cardinality({k \in 1..Len(decided) : decided[k].a = act}) = 1
        /\ decided[1].a = act
        /\ decided[1].at = 0
        /\ EndedAs(RunBranch(IF decided[1].ok THEN Get(act, "then")
                             ELSE Get(act, "else")))
        /\ (act = CondSign /\ MapGet(snap, nName) = PyInt(-5) =>
               trace = IF "set_var" \in ctx
                       THEN <<CallRec("set_var", <<PyStr(nName), PyStr(txtOne)>>)>>
                       ELSE <<>>)

\* C1 witness: the sign example ran with every callback present
C1_SignExampleRan ==
    /\ status = "returned"
    /\ act = CondSign
    /\ ctx = CallbackNames
    /\ MapGet(snap, nName) = PyInt(-5)
    /\ trace = <<CallRec("set_var", <<PyStr(nName), PyStr(txtOne)>>)>>
    /\ MapGet(store, nName) = PyStr(txtOne)

\* C2: a Conditional whose interpolated condition safe_eval rejects is
\* decided false without raising: the call ends exactly as the run of the
\* else branch alone, and `if c then goto A else goto B` returns after
\* navigating to B only.
C2_FailingConditionTakesElse ==
    /\ ActionKind(act) = "if"
    /\ ~safe_eval(interpolate(CondOf(act), SnapVars), SnapVars).ok
    => /\ (decided # <<>> => ~decided[1].ok /\ decided[1].at = 0)
       /\ (Done => EndedAs(RunBranch(Get(act, "else"))))
       /\ (Done /\ act = Choice(CondOf(act)) =>
              status = "returned" /\ trace = Navigated(sceneB))

\* C2 witness: a condition that divides by zero led to the else branch
C2_DivZeroTookElse ==
    /\ status = "returned"
    /\ act = Choice(PyStr(condDivZero))
    /\ ctx = CallbackNames
    /\ decided = <<[a |-> act, cond |-> PyStr(condDivZero), ok |-> FALSE, at |-> 0]>>
    /\ trace = <<CallRec("show_scene", <<PyStr(sceneB)>>)>>

\* C3: no call of execute_action ends with an exception, and a sequence
\* whose first element is the legacy progress(bar, 1.2.3) still runs the
\* goto that follows it.
C3_ExecuteNeverRaises ==
    /\ (faultyProgress \notin ctx => status # "raised")
    /\ (status = "returned" /\ act = SeqLegacyDotted /\ "show_scene" \in ctx =>
           \E k \in 1..Len(trace) : trace[k] = CallRec("show_scene", <<PyStr(sceneA)>>))

\* tags of the constructs the evaluator is to reject: calls, attributes,
\* subscripts, lambdas, conditional expressions, comprehensions, floor
\* division, the bitwise operators, in and is
RejectedTags ==
    {"Call", "Attribute", "Subscript", "Lambda", "IfExp", "ListComp",
     "FloorDiv", "BitAnd", "BitOr", "BitXor", "Invert", "LShift", "RShift",
     "In", "NotIn", "Is", "IsNot"}

\* C4: when the tree of the expression has, at any depth, a node whose tag
\* is outside _ALLOWED_NODES or is one of RejectedTags, safe_eval fails at the
\* check, before eval.
C4_DisallowedNodeFailsClosed ==
    /\ EvParsed
    /\ \/ ~(Tags(EvTree.node) \subseteq _ALLOWED_NODES)
       \/ Tags(EvTree.node) \cap RejectedTags # {}
    => ev.out = SErr("check")

\* C4 witness: the attribute inside a list inside a tuple was rejected
C4_DeepAttributeRejected ==
    /\ ev.op = "safe_eval"
    /\ ev.expr = PyStr(exprAttrDeep)
    /\ "Attribute" \in Tags(EvTree.node)
    /\ ev.out = SErr("check")

\* C5: an expression that refers to an identifier that is not in the
\* snapshot makes safe_eval fail.
C5_UnboundNameFails ==
    EvParsed /\ ~(NameIds(EvTree.node) \subseteq DOMAIN store) => ~ev.out.ok

\* C6: an expression in which a string or bytes literal is an operand of an
\* arithmetic operator makes safe_eval fail.
C6_TextOperandRejected ==
    EvParsed /\ TextOperand(EvTree.node) => ~ev.out.ok

\* C7 as stated: safe_eval called directly on "${x} > 3" with x = 5 is True.
C7_DirectTokenResolved ==
    /\ ev.op = "safe_eval"
    /\ ev.expr = PyStr(exprTokenXGt3)
    /\ ~ev.pre
    /\ MapGet(store, xName) = PyInt(5)
    => ev.out = SOk(PyBool(TRUE))

\* C7: safe_eval called directly on "${x} > 3" fails with a parse error on
\* every snapshot; on the text interpolated by the caller, with x = 5, it is
\* True.
C7_TokenNeedsInterpolation ==
    ev.op = "safe_eval" /\ ev.expr = PyStr(exprTokenXGt3) =>
        /\ (~ev.pre => ev.out = SErr("parse"))
        /\ (ev.pre /\ MapGet(store, xName) = PyInt(5) => ev.out = SOk(PyBool(TRUE)))

\* C7 witness: the direct call on "${x} > 3" with x = 5 ended in a parse error
C7_DirectTokenParseError ==
    /\ ev.op = "safe_eval"
    /\ ev.expr = PyStr(exprTokenXGt3)
    /\ ~ev.pre
    /\ MapGet(store, xName) = PyInt(5)
    /\ ev.out = SErr("parse")

\* C8: safe_eval of an empty or white-space text is False on every snapshot,
\* and a Conditional whose condition is absent, empty or white space ends
\* exactly as the run of its else branch alone.
C8_EmptyIsFalse ==
    /\ (ev.op = "safe_eval" /\ IsStr(EvInput) /\ Blank(EvInput.s) =>
           ev.out = SOk(PyBool(FALSE)))
    /\ (/\ ActionKind(act) = "if"
        /\ IsStr(CondOf(act))
        /\ Blank(interpolate(CondOf(act), SnapVars).s)
        => /\ (decided # <<>> => ~decided[1].ok)
           /\ (Done => EndedAs(RunBranch(Get(act, "else"))))
           /\ (Done /\ Get(act, "then") = Goto(sceneA) /\ Get(act, "else") = Goto(sceneB) =>
                  status = "returned" /\ trace = Navigated(sceneB)))

\* C8 witness: safe_eval of a text of white space returned False
C8_BlankEvaluatedFalse ==
    /\ ev.op = "safe_eval"
    /\ ev.expr = PyStr(condBlank)
    /\ ev.out = SOk(PyBool(FALSE))

\* C9: a legacy set(name, value) makes the set_var calls of the structured
\* action {type: set, var: name, value: value}.
C9_LegacySetAsStructured ==
    ActionKind(act) = "legacy_set" /\ Done =>
        trace = execute_action(
                    SetVar(Strip(_LEGACY_SET_RE(act.s).g1),
                           PyStr(StripChars(StripChars(Strip(_LEGACY_SET_RE(act.s).g2),
                                                       {"\""}), {"'"}))),
                    ctx, snap).trace

\* C10: for a scene name T, the legacy goto(T), in any letter case of the
\* keyword, makes the callbacks of the structured {type: goto, target: T}: one
\* show_scene(T) when the context has show_scene, none otherwise.
C10_LegacyGotoAsStructured ==
    \A t \in SceneNames, kw \in {gotoText, <<"G", "O", "T", "O">>, <<"G", "o", "T", "o">>} :
        Done /\ act = PyStr(kw \o <<"(">> \o t \o <<")">>) =>
            /\ trace = execute_action(Goto(t), ctx, snap).trace
            /\ trace = Navigated(t)

\* C11: show_scene is never invoked with an empty scene name, by a
\* structured or a legacy goto; the legacy goto( ) invokes no callback.
C11_NeverNavigatesToEmpty ==
    /\ \A k \in 1..Len(trace) :
          trace[k].cb = "show_scene" => trace[k].args[1] # PyStr(<<>>)
    /\ (Done /\ act = PyStr(legacyGotoBlank) => trace = <<>>)

\* C12: a non-empty text action that matches none of the three legacy
\* patterns returns normally and invokes no callback: the trace stays empty,
\* the store is the one the call started with and the call never raises.
C12_UnmatchedTextIsNoOp ==
    /\ IsStr(act)
    /\ Truthy(act)
    /\ ~_LEGACY_SET_RE(act.s).ok
    /\ ~_LEGACY_PROGRESS_RE(act.s).ok
    /\ ~_LEGACY_GOTO_RE(act.s).ok
    => /\ trace = <<>>
       /\ store = snap
       /\ status \in {"running", "returned"}

\* C12 witness: "xgoto(A)" returned with every callback present and none
\* invoked
C12_PrefixedGotoIgnored ==
    /\ status = "returned"
    /\ act = PyStr(legacyPrefixed)
    /\ ctx = CallbackNames
    /\ trace = <<>>

\* the action is not empty, is no text and is none of goto, set, progress, if
Unrecognized(a) ==
    /\ Truthy(a)
    /\ ~IsStr(a)
    /\ (a.py = "dict" =>
           Get(a, "type") \notin {PyStr(gotoText), PyStr(setText),
                                  PyStr(progressText), PyStr(ifText)})

\* C13: a non-empty action that is none of the four recognized variants
\* never raises; it is handed once, unchanged, to handle_action when the
\* context has one and is dropped otherwise, and no other callback is invoked.
C13_UnknownGoesToFallback ==
    Unrecognized(act) =>
        /\ status # "raised"
        /\ (Done => trace = IF "handle_action" \in ctx
                            THEN <<CallRec("handle_action", <<act>>)>>
                            ELSE <<>>)

\* the callback an action of kind k invokes, "none" when it invokes none
OwnCallback(k) ==
    CASE k \in {"goto", "legacy_goto"} -> "show_scene"
      [] k \in {"set", "legacy_set"} -> "set_var"
      [] k \in {"progress", "legacy_progress"} -> "set_progress"
      [] k = "unknown" -> "handle_action"
      [] OTHER -> "none"

\* C14: whichever callbacks the context lacks, execute_action returns
\* normally; an action whose own callback is missing returns without any
\* callback and leaves the store as it was; a Conditional run without
\* get_vars decides its condition on the empty snapshot.
C14_MissingCallbackIsNoOp ==
    /\ (~(CallbackNames \subseteq ctx) => status # "raised")
    /\ (Done /\ OwnCallback(ActionKind(act)) \in CallbackNames \ ctx =>
           status = "returned" /\ trace = <<>> /\ store = snap)
    /\ (ActionKind(act) = "if" /\ "get_vars" \notin ctx /\ decided # <<>> =>
           decided[1].ok = CondHolds(CondOf(act), <<>>))

\* the last callback of the trace
LastCall(t) == t[Len(t)]

\* C15: a structured set, run with set_var and get_vars present, makes
\* exactly one set_var call; a text value is passed as its interpolation
\* against the store as it is before this action writes it, and stays a
\* text (no number or boolean is made of it); any other value is passed
\* unchanged.  With x = "a", set x := "${x}!" calls set_var("x", "a!").
C15_SetInterpolatesBeforeWrite ==
    [][/\ Pending("set")
       /\ {"set_var", "get_vars"} \subseteq ctx
       /\ Get(Head(stack), "var") # PyNone
       => /\ trace' = Append(trace,
                 CallRec("set_var",
                         <<Get(Head(stack), "var"),
                           IF IsStr(Get(Head(stack), "value"))
                           THEN interpolate(Get(Head(stack), "value"), store)
                           ELSE Get(Head(stack), "value")>>))
          /\ (IsStr(Get(Head(stack), "value")) => IsStr(LastCall(trace').args[2]))
          /\ (/\ Head(stack) = SetVar(xName, PyStr(txtTokenXBang))
              /\ MapGet(store, xName) = PyStr(txtA)
              => LastCall(trace').args = <<PyStr(xName), PyStr(txtABang)>>)]_vars

\* C15 witness: with x = "a", the sequence of two set x := "${x}!" called
\* set_var("x", "a!") and then set_var("x", "a!!")
C15_BangAppendedTwice ==
    /\ status = "returned"
    /\ act = SeqSetTwice
    /\ MapGet(snap, xName) = PyStr(txtA)
    /\ trace = <<CallRec("set_var", <<PyStr(xName), PyStr(txtABang)>>),
                 CallRec("set_var", <<PyStr(xName), PyStr(txtABang \o <<"!">>)>>)>>

\* the target of a progress action: `target`, or `var` when that is empty
ProgressTarget(a) ==
    IF Truthy(Get(a, "target")) THEN Get(a, "target") ELSE Get(a, "var")

\* the value a progress action works on: the text value interpolated against
\* the store when the context has get_vars, the value itself otherwise
ProgressValue(a) ==
    IF IsStr(GetDefault(a, "value", PyInt(0))) /\ "get_vars" \in ctx
    THEN interpolate(GetDefault(a, "value", PyInt(0)), store)
    ELSE GetDefault(a, "value", PyInt(0))

\* C16: a structured progress with a non-empty target, run with
\* set_progress present, calls set_progress: with the float of its
\* (interpolated) value when float() accepts it, with that value itself,
\* unconverted, when float() rejects it; this is its one call when
\* set_progress returns.  "2.5" arrives as 2.5, 7 as 7.0 and "1.2.3" as the
\* text "1.2.3".
C16_ProgressNeverDropped ==
    [][/\ Pending("progress")
       /\ "set_progress" \in ctx
       /\ Truthy(ProgressTarget(Head(stack)))
       => /\ Len(trace') > Len(trace)
          /\ SubSeq(trace', 1, Len(trace) + 1) = Append(trace,
                 CallRec("set_progress",
                         <<ProgressTarget(Head(stack)),
                           IF ToFloat(ProgressValue(Head(stack))).ok
                           THEN ToFloat(ProgressValue(Head(stack))).v
                           ELSE ProgressValue(Head(stack))>>))
          /\ (faultyProgress \notin ctx => Len(trace') = Len(trace) + 1)
          /\ (Get(Head(stack), "value") = PyStr(txtTwoHalf) =>
                 trace'[Len(trace) + 1].args[2] = PyFloat(25, 1))
          /\ (Get(Head(stack), "value") = PyInt(7) =>
                 trace'[Len(trace) + 1].args[2] = PyFloat(70, 1))
          /\ (Get(Head(stack), "value") = PyStr(txtDotted) =>
                 trace'[Len(trace) + 1].args[2] = PyStr(txtDotted))]_vars

\* C16 witness: progress bar := "1.2.3" handed the text to set_progress
C16_DottedPassedThrough ==
    /\ status = "returned"
    /\ act = SetProgress(barName, PyStr(txtDotted))
    /\ trace = <<CallRec("set_progress", <<PyStr(barName), PyStr(txtDotted)>>)>>

\* C17: a structured goto whose target is non-empty, run with show_scene
\* present, makes exactly one callback, show_scene with the target as
\* written (a ${n} in it is not interpolated, and the target need not be a
\* scene); otherwise it makes no callback.  The store is not touched.
C17_GotoNavigatesVerbatim ==
    [][Pending("goto") =>
          /\ trace' = IF Truthy(Get(Head(stack), "target")) /\ "show_scene" \in ctx
                      THEN Append(trace, CallRec("show_scene",
                                                 <<Get(Head(stack), "target")>>))
                      ELSE trace
          /\ store' = store
          /\ status' # "raised"]_vars

\* C17 witness: goto "${n}" called show_scene("${n}") and nothing else
C17_TokenTargetKept ==
    /\ status = "returned"
    /\ act = Goto(txtTokenN)
    /\ ctx = CallbackNames
    /\ MapGet(snap, nName) = PyInt(-5)
    /\ trace = <<CallRec("show_scene", <<PyStr(txtTokenN)>>)>>

\* the elements of a sequence run one after the other, each to its end
\* before the next starts: the concatenation of their traces and the store
\* they leave
RECURSIVE SeqRun(_, _, _)
SeqRun(xs, st, c) ==
    IF xs = <<>> THEN [trace |-> <<>>, store |-> st]
    ELSE LET r == execute_action(Head(xs), c, st)
             rest == SeqRun(Tail(xs), r.store, c)
         IN  [trace |-> r.trace \o rest.trace, store |-> rest.store]

\* the branch the current Conditional chose
ChosenBranch == IF decided[1].ok THEN Get(act, "then") ELSE Get(act, "else")

\* C18: when the chosen branch of a Conditional is a sequence, every element
\* runs once, in order, and the call returns with the concatenation of the
\* traces of the elements.
C18_SequenceRunsAllInOrder ==
    /\ ActionKind(act) = "if"
    /\ Done
    /\ ChosenBranch.py = "list"
    => /\ status = "returned"
       /\ trace = SeqRun(ChosenBranch.xs, snap, ctx).trace
       /\ store = SeqRun(ChosenBranch.xs, snap, ctx).store

\* the current Conditional with its chosen branch A replaced by [A]
ChosenAsSequence ==
    IF decided[1].ok
    THEN [act EXCEPT !.d.then = PyList(<<@>>)]
    ELSE [act EXCEPT !.d.else = PyList(<<@>>)]

\* C19: a Conditional whose chosen branch is a single action A, structured
\* or legacy text, leaves the trace of the same Conditional with the branch
\* [A]; a legacy goto(A) given as the branch itself is executed.
C19_SingleBranchAsSequence ==
    /\ ActionKind(act) = "if"
    /\ Done
    /\ ChosenBranch.py \in {"dict", "str"}
    => /\ trace = execute_action(ChosenAsSequence, ctx, snap).trace
       /\ (act = BranchLegacySingle => trace = Navigated(sceneA))

\* the closing braces of a ${identifier} token that opens at position i: one
\* index when s[i..] starts with "${", one or more identifier characters and
\* "}", none otherwise
TokenClose(s, i) ==
    {j \in (i + 3)..Len(s) :
        /\ s[i] = "$"
        /\ s[i + 1] = "{"
        /\ s[j] = "}"
        /\ \A k \in (i + 2)..(j - 1) : s[k] \in IdChars}

\* what stands for the token named id: nothing when the snapshot has no id
\* or holds None under it, the string form of the value otherwise
TokenText(id, snapshot) ==
    IF id \notin DOMAIN snapshot \/ snapshot[id] = PyNone THEN <<>>
    ELSE StrOf(snapshot[id])

\* the template read from position i, left to right: a token is replaced,
\* any other character is kept, and a replacement is not read again
RECURSIVE Substituted(_, _, _)
Substituted(s, i, snapshot) ==
    IF i > Len(s) THEN <<>>
    ELSE IF TokenClose(s, i) = {} THEN <<s[i]>> \o Substituted(s, i + 1, snapshot)
    ELSE LET j == CHOOSE j \in TokenClose(s, i) : TRUE
         IN  TokenText(Slice(s, i + 2, j - 1), snapshot)
             \o Substituted(s, j + 1, snapshot)

\* C20: interpolate replaces each ${identifier} token by nothing when the
\* identifier is missing from the snapshot or is None there, by the string
\* form of the value otherwise, and keeps every other character, malformed
\* tokens such as ${} and ${a-b} included; it does not fail.  "${x}" with
\* x = 5 is "5", "${missing}" is "", and 42 stays 42.
C20_InterpolateSubstitutesTokens ==
    ev.op = "interpolate" =>
        /\ ev.out.ok
        /\ (IsStr(ev.expr) =>
               ev.out.v = PyStr(Substituted(ev.expr.s, 1, store)))
        /\ (~IsStr(ev.expr) => ev.out.v = ev.expr)
        /\ (ev.expr = PyStr(txtTokenX) /\ MapGet(store, xName) = PyInt(5) =>
               ev.out.v = PyStr(<<"5">>))
        /\ (ev.expr = PyStr(txtTokenMissing) => ev.out.v = PyStr(<<>>))
        /\ (ev.expr \in {PyStr(txtTokenEmpty), PyStr(txtTokenDash)} =>
               ev.out.v = ev.expr)

\* C20 witness: "a${x}b${n}c" with x = None and n = True became "abTruec"
C20_TwoTokensReplaced ==
    /\ ev.op = "interpolate"
    /\ ev.expr = PyStr(txtTwoTokens)
    /\ store = (nName :> PyBool(TRUE)) @@ (xName :> PyNone)
    /\ ev.out.v = PyStr(<<"a", "b", "T", "r", "u", "e", "c">>)

\* the positions of the template at which a ${identifier} token opens
TokenStarts(s) == {i \in 1..Len(s) : TokenClose(s, i) # {}}

\* the length of the token that opens at position i
TokenLen(s, i) == (CHOOSE j \in TokenClose(s, i) : TRUE) - i + 1

\* the sum of f over the finite set S of integers
RECURSIVE SumOver(_, _)
SumOver(S, f) ==
    IF S = {} THEN 0
    ELSE LET i == CHOOSE i \in S : TRUE
         IN  f[i] + SumOver(S \ {i}, f)

\* C21: interpolate is single-pass.  Exactly the tokens of the template as
\* written are substituted, each once: the output is as long as the template
\* with every such token exchanged for the text of its value, and a value
\* that itself holds a token appears with the token as written ("${n}" with
\* n = "${x}" and x = "a" gives "${x}", not "a").
C21_InterpolateSinglePass ==
    ev.op = "interpolate" /\ IsStr(ev.expr) =>
        /\ Len(ev.out.v.s) =
              Len(ev.expr.s)
              + SumOver(TokenStarts(ev.expr.s),
                        [i \in TokenStarts(ev.expr.s) |->
                            Len(TokenText(Slice(ev.expr.s, i + 2,
                                                i + TokenLen(ev.expr.s, i) - 2),
                                          store))
                            - TokenLen(ev.expr.s, i)])
        /\ (ev.expr = PyStr(txtTokenN) /\ MapGet(store, nName) = PyStr(txtTokenX) =>
               ev.out.v = PyStr(txtTokenX))

\* C21 witness: "${n}" with n = "${x}" and x = "a" came out as "${x}"
C21_TokenInValueKept ==
    /\ ev.op = "interpolate"
    /\ ev.expr = PyStr(txtTokenN)
    /\ MapGet(store, nName) = PyStr(txtTokenX)
    /\ MapGet(store, xName) = PyStr(txtA)
    /\ ev.out.v = PyStr(txtTokenX)

\* C22: a Boolean is interpolated in lower case: "${n}" is "true" when n is
\* True, or a text that coerces to True such as "True", and "false" for
\* False.
C22_BooleanInterpolatesLowerCase ==
    /\ ev.op = "interpolate"
    /\ ev.expr \in {PyStr(txtTokenN), PyStr(txtTokenX)}
    /\ CoerceLocal(MapGet(store, Slice(ev.expr.s, 3, 3))).py = "bool"
    => ev.out.v = IF CoerceLocal(MapGet(store, Slice(ev.expr.s, 3, 3))).b
                  THEN PyStr(trueText)
                  ELSE PyStr(falseText)

\* the document fails a root-level check: it is no mapping, or it has no
\* `scenes`, or its `scenes` is no mapping
RootFault(doc) ==
    \/ doc.py # "dict"
    \/ "scenes" \notin DOMAIN doc.d
    \/ doc.d.scenes.py # "dict"

\* C23: validate_ikp stops at the two root-level checks: for a document that
\* is no mapping, or whose `scenes` is absent or no mapping, the report has
\* exactly one error, about the root, and no warning, whatever the document
\* holds.
C23_RootFaultShortCircuits ==
    ev.op = "validate" /\ RootFault(ev.expr) =>
        /\ Len(ev.out.v.errors) = 1
        /\ ev.out.v.errors[1].kind \in {"root_not_mapping", "scenes_not_mapping"}
        /\ ev.out.v.warnings = <<>>

\* C23 witness: `scenes` given as a list of faulty scenes gave one error
C23_ScenesListOneError ==
    /\ ev.op = "validate"
    /\ ev.expr = DocScenesList
    /\ ev.out.v = Report(<<Finding("scenes_not_mapping", "", -1)>>, <<>>)

\* the positions 1..n in order
RECURSIVE Positions(_)
Positions(n) == IF n = 0 THEN <<>> ELSE Append(Positions(n - 1), n)

\* the errors a scene is due, stated element by element
SceneErrors(sname, scene) ==
    IF scene.py # "dict" THEN <<Finding("scene_not_mapping", sname, -1)>>
    ELSE IF "ui" \notin DOMAIN scene.d \/ scene.d.ui = PyNone THEN <<>>
    ELSE IF scene.d.ui.py # "list" THEN <<Finding("ui_not_list", sname, -1)>>
    ELSE LET ui == scene.d.ui.xs
             AtFault(p) == ui[p].py # "dict" \/ "type" \notin DOMAIN ui[p].d
             faulty == SelectSeq(Positions(Len(ui)), AtFault)
         IN  [q \in 1..Len(faulty) |->
                 Finding(IF ui[faulty[q]].py # "dict" THEN "item_not_mapping"
                         ELSE "item_missing_type", sname, faulty[q] - 1)]

\* the warnings a scene is due
SceneWarnings(sname, scene) ==
    IF scene.py = "dict" /\ ("ui" \notin DOMAIN scene.d \/ scene.d.ui = PyNone)
    THEN <<Finding("scene_no_ui", sname, -1)>>
    ELSE <<>>

\* the findings of the first k scenes, scene after scene
RECURSIVE ErrorsUpTo(_, _)
ErrorsUpTo(scenes, k) ==
    IF k = 0 THEN <<>>
    ELSE ErrorsUpTo(scenes, k - 1) \o SceneErrors(scenes.ks[k], scenes.d[scenes.ks[k]])

RECURSIVE WarningsUpTo(_, _)
WarningsUpTo(scenes, k) ==
    IF k = 0 THEN <<>>
    ELSE WarningsUpTo(scenes, k - 1) \o SceneWarnings(scenes.ks[k], scenes.d[scenes.ks[k]])

\* C24: past the root-level checks validate_ikp reports every structural
\* problem in one pass: the errors are one per scene that is no mapping, one
\* per scene whose ui is present and no list, one per ui element that is no
\* mapping or has no `type`; the warnings are one per mapping scene without
\* ui; all in scene order, then element order, none suppressed by an earlier
\* finding.  A document without such a problem has no error.
C24_EveryProblemReportedInOrder ==
    ev.op = "validate" /\ ~RootFault(ev.expr) =>
        /\ ev.out.v.errors = ErrorsUpTo(ev.expr.d.scenes, Len(ev.expr.d.scenes.ks))
        /\ ev.out.v.warnings = WarningsUpTo(ev.expr.d.scenes, Len(ev.expr.d.scenes.ks))
        /\ (ev.expr = DocValid => ev.out.v = Report(<<>>, <<>>))
        /\ (ev.expr = DocMixed =>
               ev.out.v = Report(<<Finding("scene_not_mapping", "A", -1),
                                   Finding("ui_not_list", "C", -1),
                                   Finding("item_not_mapping", "D", 0),
                                   Finding("item_missing_type", "D", 1),
                                   Finding("item_missing_type", "D", 3)>>,
                                 <<Finding("scene_no_ui", "B", -1),
                                   Finding("scene_no_ui", "E", -1)>>))

\* C24 witness: the mixed document in reverse order was validated; the
\* findings of scenes D and C come before that of scene A
C24_MixedReportedInSceneOrder ==
    /\ ev.op = "validate"
    /\ ev.expr = DocMixedBack
    /\ Len(ev.out.v.errors) = 5
    /\ ev.out.v.errors[1] = Finding("item_not_mapping", "D", 0)
    /\ ev.out.v.errors[5] = Finding("scene_not_mapping", "A", -1)
    /\ ev.out.v.warnings = <<Finding("scene_no_ui", "E", -1), Finding("scene_no_ui", "B", -1)>>

\* C25: validation passes only if `scenes` is a non-empty mapping: a
\* document whose `scenes` is an empty mapping gets at least one error.
C25_EmptyScenesRejected ==
    /\ ev.op = "validate"
    /\ ev.expr.py = "dict"
    /\ "scenes" \in DOMAIN ev.expr.d
    /\ ev.expr.d.scenes.py = "dict"
    /\ ev.expr.d.scenes.ks = <<>>
    => ev.out.v.errors # <<>>

\* the binding the ordered rule gives a raw string: Boolean, else Number by
\* the dotted-float path, else Number by the integer path, else the string
RuleBinding(raw) ==
    CASE LowerText(Strip(raw)) = trueText -> PyBool(TRUE)
      [] LowerText(Strip(raw)) = falseText -> PyBool(FALSE)
      [] LowerText(Strip(raw)) \notin {trueText, falseText}
         /\ HasChar(raw, ".") /\ FloatParse(raw).ok -> FloatParse(raw).v
      [] LowerText(Strip(raw)) \notin {trueText, falseText}
         /\ ~HasChar(raw, ".") /\ IntParse(raw).ok -> IntParse(raw).v
      [] OTHER -> PyStr(raw)

\* C26: a raw string of the snapshot is bound by a total, ordered coercion:
\* Boolean when it reads true/false after trimming and lower-casing, else
\* Number when it has a '.' and parses as a float, else Number when it
\* parses as an integer, else it stays a String; so "1e3" stays a String and
\* a comparison of it with a number fails with ExpressionError.
C26_RawStringCoercedInOrder ==
    /\ ev.op = "safe_eval"
    /\ ~ev.pre
    /\ xName \in DOMAIN store
    /\ IsStr(store[xName])
    => /\ ev.expr = PyStr(exprNameX) => ev.out = SOk(RuleBinding(store[xName].s))
       /\ (store[xName] = PyStr(txtSci) /\ ev.expr = PyStr(exprNameX))
              => ev.out = SOk(PyStr(txtSci))
       /\ (IsStr(RuleBinding(store[xName].s))
           /\ ev.expr \in {PyStr(exprXGt3), PyStr(exprXEq1000)})
              => ~ev.out.ok

\* C26 (amended): the ordered coercion is as stated and "1e3" stays a
\* String; an ordering comparison of a String binding with a number fails
\* with the evaluation error, while == with a number returns False.
C26_CoercedThenOrderingFails ==
    /\ ev.op = "safe_eval"
    /\ ~ev.pre
    /\ xName \in DOMAIN store
    /\ IsStr(store[xName])
    => /\ ev.expr = PyStr(exprNameX) => ev.out = SOk(RuleBinding(store[xName].s))
       /\ (store[xName] = PyStr(txtSci) /\ ev.expr = PyStr(exprNameX))
              => ev.out = SOk(PyStr(txtSci))
       /\ (IsStr(RuleBinding(store[xName].s)) /\ ev.expr = PyStr(exprXGt3))
              => ev.out = SErr("eval")
       /\ (IsStr(RuleBinding(store[xName].s)) /\ ev.expr = PyStr(exprXEq1000))
              => ev.out = SOk(PyBool(FALSE))

\* C26 witness: x > 3 was evaluated with x = "1e3" and failed
C26_SciComparedWithNumber ==
    /\ ev.op = "safe_eval"
    /\ ~ev.pre
    /\ ev.expr = PyStr(exprXGt3)
    /\ xName \in DOMAIN store
    /\ store[xName] = PyStr(txtSci)
    /\ ev.out = SErr("eval")

\* C29: a structured progress invokes set_progress at most once, whatever
\* the callback does: a set_progress that raises is not invoked again with
\* the unconverted value.
C29_ProgressInvokedAtMostOnce ==
    [][Pending("progress") => Len(trace') <= Len(trace) + 1]_vars

\* the leaf actions of an action tree: every action that is no Conditional,
\* a Conditional counting those of the elements of its two branches
RECURSIVE Leaves(_)
Leaves(a) ==
    IF ActionKind(a) # "if" THEN 1
    ELSE LET xs == BranchActions(Get(a, "then")) \o BranchActions(Get(a, "else"))
         IN  SumOver(1..Len(xs), [k \in 1..Len(xs) |-> Leaves(xs[k])])

\* the nodes of an action tree
RECURSIVE Nodes(_)
Nodes(a) ==
    IF ActionKind(a) # "if" THEN 1
    ELSE LET xs == BranchActions(Get(a, "then")) \o BranchActions(Get(a, "else"))
         IN  1 + SumOver(1..Len(xs), [k \in 1..Len(xs) |-> Nodes(xs[k])])

\* the nesting depth of an action tree
RECURSIVE NestingDepth(_)
NestingDepth(a) ==
    IF ActionKind(a) # "if" THEN 1
    ELSE LET xs == BranchActions(Get(a, "then")) \o BranchActions(Get(a, "else"))
             SubDepths == {NestingDepth(xs[k]) : k \in 1..Len(xs)} \cup {0}
         IN  1 + CHOOSE d \in SubDepths : \A e \in SubDepths : e <= d

\* the kinds of invocation that have an action of Step
StepKinds ==
    {"empty", "not_dict", "legacy_set", "legacy_progress", "legacy_goto", "legacy_none",
     "goto", "set", "progress", "if", "unknown"}

\* the nodes still to visit
PendingNodes(st) == SumOver(1..Len(st), [k \in 1..Len(st) |-> Nodes(st[k])])

\* C27: execute_action terminates on every action tree: each step visits one
\* node that is never visited again, every call that runs ends, the pending
\* invocations are never deeper than the nesting depth of the action, and,
\* when set_progress returns, the trace never has more callbacks than the
\* action has leaves.
C27_TerminatesWithinTree ==
    /\ [](status # "idle" =>
             /\ status = "running" => stack # <<>> /\ ActionKind(Head(stack)) \in StepKinds
             /\ \A k \in 1..Len(depths) : depths[k] <= NestingDepth(act)
             /\ (faultyProgress \notin ctx => Len(trace) <= Leaves(act)))
    /\ [][status = "running" => PendingNodes(stack') < PendingNodes(stack)]_vars
    /\ (status = "running" ~> Done)

\* C27 witness: the nested example runs its innermost goto at depth 3, the
\* nesting depth of the action, after one callback
C27_InnermostAtFullDepth ==
    /\ act = SeqNested
    /\ status = "running"
    /\ depths = <<3>>
    /\ NestingDepth(act) = 3
    /\ Len(trace) = 1
    /\ Leaves(act) = 4

\* the store after the host has applied the callbacks of t to st, in order
RECURSIVE Replay(_, _)
Replay(st, t) ==
    IF t = <<>> THEN st
    ELSE Replay(HostApply(st, Head(t).cb, Head(t).args), Tail(t))

\* C28: each action of a call reads the snapshot at the moment it runs.
\* With a host whose set_var writes the store that get_vars reads, every
\* Conditional is decided on the store as the callbacks made before it left
\* it, not on the store of the start of the call: with n = 5 the nested
\* example sets n to "-1" and then finds n > 0 false; and the second set of
\* x := "${x}!" sees the "a!" written by the first.
C28_EachActionReadsFreshSnapshot ==
    /\ status # "idle"
    /\ {"get_vars", "set_var"} \subseteq ctx
    /\ faultyProgress \notin ctx
    => /\ \A k \in 1..Len(decided) :
              decided[k].ok = CondHolds(decided[k].cond,
                                        Replay(snap, SubSeq(trace, 1, decided[k].at)))
       /\ (act = SeqNested /\ Done /\ MapGet(snap, nName) = PyInt(5) =>
              trace = <<CallRec("set_var", <<PyStr(nName), PyStr(txtMinusOne)>>)>>
                      \o Navigated(sceneB))
       /\ (act = SeqSetTwice /\ Done /\ MapGet(snap, xName) = PyStr(txtA) =>
              /\ Len(trace) = 2
              /\ trace[2] = CallRec("set_var", <<PyStr(xName), PyStr(txtABang \o <<"!">>)>>))

\* C28 witness: the nested example ran from n = 5: its inner Conditional,
\* decided after set_var(n, "-1"), chose the else branch
C28_InnerSawWrittenValue ==
    /\ act = SeqNested
    /\ status = "returned"
    /\ MapGet(snap, nName) = PyInt(5)
    /\ Len(decided) = 2
    /\ decided[1].ok
    /\ ~decided[2].ok
    /\ decided[2].at = 1
    /\ trace = <<CallRec("set_var", <<PyStr(nName), PyStr(txtMinusOne)>>),
                 CallRec("show_scene", <<PyStr(sceneB)>>)>>

\* C30: the branch a Conditional chooses depends only on the variables its
\* condition names: for the condition "${n} > 0", every snapshot that agrees
\* with the one of the call on n leads to the same branch, whatever its
\* other variables hold.
C30_BranchDependsOnNamedOnly ==
    /\ status # "idle"
    /\ act = Choice(PyStr(condNPositive))
    /\ "get_vars" \in ctx
    /\ decided # <<>>
    /\ nName \in DOMAIN snap
    => \A other \in Snapshots :
           nName \in DOMAIN other /\ other[nName] = snap[nName] =>
               CondHolds(PyStr(condNPositive), other) = decided[1].ok

====
